---- MODULE Spec2Model ----
(***************************************************************************)
(* A model of the core of oyez-scraping: the audio downloader's in-flight  *)
(* deduplication, the raw-data cache, the scraper service, the failure     *)
(* tracker, the download service's worker pool and retry rounds, and the   *)
(* pagination drivers.  Each subsystem has its own next-state relation     *)
(* over the shared state; the specifications at the end name them.         *)
(***************************************************************************)
EXTENDS Integers, Sequences, FiniteSets, TLC

VARIABLES
    \* ---- RawDataCache (infrastructure/storage/cache.py)
    cache_index,            \* self.cache_index: cases / audio_files / case_lists
    files,                  \* the blob files on disk: path -> content
    \* ---- AudioDownloader (infrastructure/processing/audio_downloader.py)
    pc,                     \* position of each caller of download_audio_file
    arg,                    \* the url each caller was invoked with
    lock,                   \* self.lock: its holder, or NoThread
    downloads_in_progress,  \* self.downloads_in_progress: content id -> Event
    eventSet,               \* the Event objects whose flag is set
    waitOn,                 \* the Event a caller fetched at line 190
    pendingExc,             \* the exception travelling through the finally block
    ret,                    \* what each call returned (or that it raised)
    netDownloads,           \* GET requests started, per content id
    cacheWrites,            \* store_audio_data calls, per content id
    netFailures,            \* number of HEAD/GET/store failures injected
    \* ---- DownloadTracker (infrastructure/storage/download_tracker.py)
    failed_items,           \* self.failed_items, in insertion order
    marks,                  \* mark_failed calls per item since its last mark_successful
    tracker_file,           \* the tracker file on disk (self.tracker_path)
    lastSave,               \* how the latest _save_tracker ended
    saveFailures,           \* _save_tracker calls whose write failed
    trackerOp,              \* the latest call on the tracker, or damage to its file
    \* ---- RawDataScraperService (services/raw_data_scraper.py) and its remote
    remoteRev,              \* the revision of each record / listing the remote serves now
    returned,               \* what the latest successful scrape of each key returned
    lastCall,               \* the latest completed scrape_case / scrape_term call
    \* ---- DownloadService (services/download_service.py)
    svcPhase,               \* where download_multiple_terms is: main pass, retry rounds
    skip_audio,             \* the skip_audio argument
    retry_round,            \* _retry_failed_cases: retry_round
    retry_items,            \* _retry_failed_cases: failed_items, the round's list
    batch,                  \* the cases submitted to the current pool
    wpc,                    \* position of the _process_case call of each case
    assetIdx,               \* the audio content item scrape_case_audio_content is at
    result,                 \* what the latest _process_case call of a case returned
    failedStep,             \* the fetch step that failed in that call, if any
    invoked,                \* the cases _process_case was called with in this pool
    sleepLog,               \* the time.sleep calls of _retry_failed_cases, in order
    interrupted,            \* KeyboardInterrupt was raised in the main thread
    lateDispatch,           \* the cases a worker took up after the interrupt
    final_stats,            \* whether the run computed and logged its final_stats
    \* ---- PaginationMixin (infrastructure/api/pagination_mixin.py), OyezCaseClient
    pagPc,                  \* position of the consumer of iter_paginated_resource
    pagRemote,              \* the resource the remote serves, page by page
    pagParam,               \* params["per_page"] of the call
    continue_pagination_on_partial_page,    \* the class attribute
    page,                   \* iter_paginated_resource: page
    per_page,               \* iter_paginated_resource: per_page
    yielded,                \* the items yielded so far
    fetchCalls,             \* get_page_resource calls made
    listCall,               \* the completed get_all_cases / get_cases_by_term call
    requestLog,             \* every page request sent: the operation, the per_page
                            \* its caller passed and the per_page parameter sent
    pagOp,                  \* the operation that drives the iteration
    \* ---- OyezClient.get (infrastructure/api/client.py)
    cliPc,                  \* position of the caller of get
    tries,                  \* tries backoff has made in this call
    attemptLog,             \* how each try of this call ended
    cliRaised,              \* the exception the call raised, if any
    periodUsed,             \* @limits: a call was let through in the current period
    gets,                   \* get calls made
    rate_limiter,           \* TrackedOyezClient.rate_limiter: was one passed in?
    httpCalls,              \* session.get calls of this get call
    acquires,               \* execute_with_rate_limit entered for this get call
    reports,                \* outcomes this get call handed to the rate limiter
    \* ---- AdaptiveRateLimiter (infrastructure/api/rate_limiter.py)
    rlPc,                   \* position of the caller of execute_with_rate_limit
    current_delay,          \* self.current_delay
    global_delay_floor,     \* self.global_delay_floor
    consecutive_successes,  \* self.consecutive_successes
    consecutive_failures,   \* self.consecutive_failures
    retries,                \* execute_with_rate_limit: retries
    invocations,            \* invocations of func in this call
    lastOutcome,            \* how the latest invocation of func ended
    lastWait,               \* the latest wait before a retry: base delay and sleep
    limiter_params,         \* the parameters the limiter was built with
    default_calls,          \* calls made on the limiter built with the defaults
    \* ---- RawDataCache used directly, by one caller or by concurrent callers
    index_doc,              \* cache_index.json on disk
    dirs,                   \* the subdirectories of cache_dir that exist
    stored,                 \* what was stored under each key since the last clear
    cacheOp,                \* the latest completed call of the single caller
    cPc,                    \* position of each concurrent caller in its call
    cArg,                   \* the call each concurrent caller is in
    cacheLock,              \* self.lock: its holder, or NoThread
    cacheCalls,             \* calls started by the concurrent callers
    \* ---- PaginationMixin.get_paginated_resource over a remote that can fail
    pageFault,              \* the page whose request fails, and how
    collected,              \* how the call ended, with what list, after which failure
    \* ---- DownloadService's statistics and ProgressMonitor
    \*      (services/download_service.py, infrastructure/monitoring/progress.py)
    stats,                  \* self.stats: the three shared counters
    statsLock,              \* self.stats["lock"]: "free" or the thread holding it
    accessLog,              \* the reads and updates of the counters made so far
    method,                 \* the public method the run was started with
    terms,                  \* the listings of the terms the run was given
    mainPc,                 \* position of the main thread
    termQueue,              \* the terms download_multiple_terms has not started yet
    listing,                \* the listing of the term at hand
    pending,                \* futures of the term not yet yielded by as_completed
    raising,                \* an exception is leaving download_term / download_all_cases
    progress_monitor,       \* self.progress_monitor: None or the monitor object
    monPc,                  \* position of the monitor thread (_monitor_progress)
    stop_event,             \* ProgressMonitor.stop_event
    lastRead,               \* how the monitor thread's latest stats_callback call ended
    monitorStarts,          \* ProgressMonitor.start calls
    monitorStops,           \* ProgressMonitor.stop calls
    startCalls,             \* _start_progress_monitoring calls
    stopCalls,              \* _stop_progress_monitoring calls
    failedTerms,            \* download_term calls that raised to download_multiple_terms
    caseErrors,             \* futures that returned a failure or raised
    attempted,              \* download_term / download_all_cases bodies entered
    retryRan,               \* _retry_failed_cases was called
    audioSum,               \* sum of the audio counts the futures returned
    runOutcome,             \* how the run's public method ended
    \* ---- download_all_cases over a case list with repeated case IDs
    work_list,              \* case_list: the cases submitted to the pool
    processed_cases,        \* the set shared by the _process_case calls
    taskPc,                 \* position of each submitted _process_case call
    scrapeCalls,            \* scraper.scrape_case calls made, by case ID
    taskResult,             \* what each _process_case call returned
    \* ---- DownloadTracker called from several worker threads
    tpc,                    \* position of each thread inside its tracker call
    tLocal,                 \* each thread's call: the case, and what it read
    tBuf,                   \* the document each thread's open file buffers
    entryObj,               \* entry dicts created so far, by item ID
    callLog                 \* the calls started so far, in order

cacheVars == <<cache_index, files>>
dlVars == <<pc, arg, lock, downloads_in_progress, eventSet, waitOn, pendingExc,
            ret, netDownloads, cacheWrites, netFailures>>
trackerVars == <<failed_items, marks, tracker_file, lastSave, saveFailures, trackerOp>>
scrVars == <<remoteRev, returned, lastCall>>
svcVars == <<svcPhase, skip_audio, retry_round, retry_items, batch, wpc, assetIdx,
             result, failedStep, invoked, sleepLog, interrupted, lateDispatch,
             final_stats>>
pagVars == <<pagPc, pagRemote, pagParam, continue_pagination_on_partial_page, page,
             per_page, yielded, fetchCalls, listCall, requestLog, pagOp>>
cliVars == <<cliPc, tries, attemptLog, cliRaised, periodUsed, gets, rate_limiter,
             httpCalls, acquires, reports>>
rlVars == <<rlPc, current_delay, global_delay_floor, consecutive_successes,
            consecutive_failures, retries, invocations, lastOutcome, lastWait,
            limiter_params, default_calls>>
cacheCallVars == <<index_doc, dirs, stored, cacheOp, cPc, cArg, cacheLock, cacheCalls>>
pagErrVars == <<pageFault, collected>>
dupVars == <<work_list, processed_cases, taskPc, scrapeCalls, taskResult>>
ctVars == <<tpc, tLocal, tBuf, entryObj, callLog>>
monVars == <<progress_monitor, monPc, stop_event, lastRead, monitorStarts, monitorStops>>
mainVars == <<mainPc, termQueue, listing, pending, raising>>
histVars == <<startCalls, stopCalls, failedTerms, caseErrors, attempted, retryRan,
              audioSum, runOutcome>>
statVars == <<stats, statsLock, accessLog, method, terms, mainVars, monVars, histVars>>
vars == <<cacheVars, dlVars, trackerVars, scrVars, svcVars, pagVars, cliVars, rlVars,
          cacheCallVars, statVars, pagErrVars, dupVars, ctVars>>

\* what each subsystem's steps leave alone
notDL == <<trackerVars, scrVars, svcVars, pagVars, cliVars, rlVars,
    cacheCallVars, statVars, pagErrVars, dupVars, ctVars>>
notTracker == <<cacheVars, dlVars, scrVars, svcVars, pagVars, cliVars, rlVars,
    cacheCallVars, statVars, pagErrVars, dupVars, ctVars>>
notScraper == <<dlVars, trackerVars, svcVars, pagVars, cliVars, rlVars,
    cacheCallVars, statVars, pagErrVars, dupVars, ctVars>>
notSvc == <<dlVars, scrVars, pagVars, cliVars, rlVars,
    cacheCallVars, statVars, pagErrVars, dupVars, ctVars>>
notPag == <<cacheVars, dlVars, trackerVars, scrVars, svcVars, cliVars, rlVars,
    cacheCallVars, statVars, pagErrVars, dupVars, ctVars>>
notRL == <<cacheVars, dlVars, trackerVars, scrVars, svcVars, pagVars, cliVars,
    cacheCallVars, statVars, pagErrVars, dupVars, ctVars>>
notClient == <<cacheVars, dlVars, trackerVars, scrVars, svcVars, pagVars, rlVars,
    cacheCallVars, statVars, pagErrVars, dupVars, ctVars>>
notCache == <<dlVars, trackerVars, scrVars, svcVars, pagVars, cliVars, rlVars,
    statVars, pagErrVars, dupVars, ctVars>>
notStats == <<cacheVars, dlVars, trackerVars, scrVars, svcVars, pagVars, cliVars,
    rlVars, cacheCallVars, pagErrVars, dupVars, ctVars>>
notPagErr == <<cacheVars, dlVars, trackerVars, scrVars, svcVars, cliVars, rlVars,
    cacheCallVars, statVars, dupVars, ctVars>>
notDup == <<cacheVars, dlVars, trackerVars, scrVars, svcVars, pagVars, cliVars,
    rlVars, cacheCallVars, statVars, pagErrVars, ctVars>>
notTrackerThreads == <<cacheVars, dlVars, scrVars, svcVars, pagVars, cliVars,
    rlVars, cacheCallVars, statVars, pagErrVars, dupVars>>

(***************************************************************************)
(* Bounds of the model.                                                    *)
(***************************************************************************)
NumThreads == 3
\* mark_failed calls modelled per item between two mark_successful calls
MaxMarks == 5
\* revisions of a remote record or listing (0 .. MaxRev)
MaxRev == 1
\* pages of a paginated resource, and items on one of its pages
MaxPages == 4
MaxPageItems == 2
\* calls of OyezClient.get
MaxGets == 3
\* the limiter is built with max_retries=rl_max_retries
rl_max_retries == 2
\* consecutive successes, and consecutive failures, of the wrapped call
MaxConsecutive == 21
MaxFailures == 5
\* calls of execute_with_rate_limit on the limiter built with the defaults
MaxDefaultCalls == 11
\* calls the concurrent callers of the cache start between them
MaxCacheCalls == 3
\* writes of the tracker file that fail
MaxSaveFailures == 1
\* terms given to download_multiple_terms, and cases a term's listing holds
MaxTerms == 2
MaxTermCases == 2
\* cases in the list download_all_cases submits to the pool
MaxWork == 3
\* tracker calls the worker threads start between them
MaxTrackerCalls == 3

(***************************************************************************)
(* Finite maps (Python dicts).                                             *)
(***************************************************************************)
EmptyMap == << >>
Put(f, k, v) == [x \in (DOMAIN f) \cup {k} |-> IF x = k THEN v ELSE f[x]]
Del(f, k) == [x \in (DOMAIN f) \ {k} |-> f[x]]

NoThread == 0
None == "None"
\* what a call has returned: nothing yet, or that it raised, or a content id
NoReturn == << >>
Raised == <<"raised">>

(***************************************************************************)
(* RawDataCache.  An index entry records the blob's path; the blob lives   *)
(* in files.  A case id is the string term "/" docket, kept as the tuple   *)
(* of its parts so that the path derivation acts on it.                    *)
(***************************************************************************)
CaseId(term, docket) == <<term, "/", docket>>

\* _get_case_path: slashes become dashes, under cases/, with .json
GetCasePath(case_id) ==
    <<"cases", [i \in DOMAIN case_id |-> IF case_id[i] = "/" THEN "-" ELSE case_id[i]], "json">>

\* _get_audio_path: sha256 of the id (injective here), dot, media type
StripDot(media_type) == IF media_type = ".mp3" THEN "mp3" ELSE media_type
GetAudioPath(audio_id, media_type) == <<"audio", <<"sha256", audio_id>>, StripDot(media_type)>>

\* store_case_list / get_case_list: metadata/<list_name>.json
GetListPath(list_name) == <<"metadata", list_name, "json">>

\* json.dump / json.load through FilesystemStorage.write_json / read_json
JsonDump(v) == [json |-> v]
JsonLoad(blob) == blob.json

EmptyIndex == [cases |-> EmptyMap, audio_files |-> EmptyMap, case_lists |-> EmptyMap]

CaseExists(case_id) == case_id \in DOMAIN cache_index.cases
AudioExists(audio_id) == audio_id \in DOMAIN cache_index.audio_files
CaseListExists(list_name) == list_name \in DOMAIN cache_index.case_lists

\* store_case_data: the index after lines 169-177
StoreCaseIndex(idx, case_id) ==
    [idx EXCEPT !.cases = Put(@, case_id,
        [path |-> GetCasePath(case_id), has_audio |-> FALSE])]

\* (variant: the audio entry is not recorded)
StoreAudioIndex_NoEntry(idx, audio_id, case_id, media_type) == idx
\* store_audio_data: the index after lines 247-260
StoreAudioIndex(idx, audio_id, case_id, media_type) ==
    LET withAudio == [idx EXCEPT !.audio_files = Put(@, audio_id,
            [path |-> GetAudioPath(audio_id, media_type),
             media_type |-> media_type, case_id |-> case_id])]
    IN  IF case_id # None /\ case_id \in DOMAIN idx.cases
        THEN [withAudio EXCEPT !.cases[case_id].has_audio = TRUE]
        ELSE withAudio

\* store_case_list: the index after lines 285-293
StoreListIndex(idx, list_name, case_list) ==
    [idx EXCEPT !.case_lists = Put(@, list_name,
        [path |-> GetListPath(list_name), count |-> Len(case_list)])]

CacheInit ==
    /\ cache_index = EmptyIndex
    /\ files = EmptyMap

(***************************************************************************)
(* AudioDownloader.download_audio_file, one caller per thread.             *)
(***************************************************************************)
Threads == 1 .. NumThreads

\* The asset URLs callers ask for: a path and the extension its path ends in.
Urls == { [path |-> "a", ext |-> "mp3"], [path |-> "b", ext |-> None] }

\* _generate_content_id: the flattened path joined to a hash of the whole url
GenerateContentId(url) == <<url.path, <<"sha256", url>>>>

\* _get_media_type: the extension of the path, "mp3" when there is none
GetMediaType(url) == IF url.ext # None THEN url.ext ELSE "mp3"

\* what the remote serves for a url
RemoteBytes(url) == <<"bytes", url.path>>

NoUrl == [path |-> None, ext |-> None]
ContentIds == { GenerateContentId(u) : u \in Urls }
Cid(t) == GenerateContentId(arg[t])

DLInit ==
    /\ pc = [t \in Threads |-> "idle"]
    /\ arg = [t \in Threads |-> NoUrl]
    /\ lock = NoThread
    /\ downloads_in_progress = EmptyMap
    /\ eventSet = {}
    /\ waitOn = [t \in Threads |-> NoThread]
    /\ pendingExc = [t \in Threads |-> FALSE]
    /\ ret = [t \in Threads |-> NoReturn]
    /\ netDownloads = [c \in ContentIds |-> 0]
    /\ cacheWrites = [c \in ContentIds |-> 0]
    /\ netFailures = 0

\* (variant: the registration is never seen, so every caller registers)
InProgress_NeverSeen(content_id) == FALSE

\* line 188: is a download of this content id registered?
InProgress(content_id) == content_id \in DOMAIN downloads_in_progress

\* a worker thread calls download_audio_file(url)
Call(t, u) ==
    /\ pc[t] = "idle"
    /\ arg' = [arg EXCEPT ![t] = u]
    /\ pc' = [pc EXCEPT ![t] = "check_cache"]
    /\ UNCHANGED <<notDL, cacheVars, lock, downloads_in_progress, eventSet, waitOn,
                   pendingExc, ret, netDownloads, cacheWrites, netFailures>>

\* lines 179-183: the cache check, made before taking the lock
CheckCache(t) ==
    /\ pc[t] = "check_cache"
    /\ pc' = [pc EXCEPT ![t] = IF AudioExists(Cid(t)) THEN "hit" ELSE "lock"]
    /\ UNCHANGED <<notDL, cacheVars, arg, lock, downloads_in_progress, eventSet, waitOn,
                   pendingExc, ret, netDownloads, cacheWrites, netFailures>>

\* lines 187-196: under self.lock, either fetch the registered Event and go
\* on to wait for it (still inside the with block, so still holding the
\* lock), or register a new Event and leave the with block
LockCheck(t) ==
    /\ pc[t] = "lock"
    /\ lock = NoThread
    /\ IF InProgress(Cid(t))
       THEN /\ lock' = t
            /\ waitOn' = [waitOn EXCEPT ![t] = downloads_in_progress[Cid(t)]]
            /\ pc' = [pc EXCEPT ![t] = "waiting"]
            /\ UNCHANGED downloads_in_progress
       ELSE /\ downloads_in_progress' = Put(downloads_in_progress, Cid(t), t)
            /\ pc' = [pc EXCEPT ![t] = "head"]
            /\ UNCHANGED <<lock, waitOn>>
    /\ UNCHANGED <<notDL, cacheVars, arg, eventSet, pendingExc, ret, netDownloads,
                   cacheWrites, netFailures>>

\* lines 184 and 193, the two early `return content_id`: after a cache hit,
\* and after download_event.wait() (line 192) has returned, which it does
\* once the Event is set; that return leaves the with block and releases
\* the lock
ReturnContentId(t) ==
    /\ (pc[t] = "hit" \/ (pc[t] = "waiting" /\ waitOn[t] \in eventSet))
    /\ lock' = IF pc[t] = "waiting" THEN NoThread ELSE lock
    /\ ret' = [ret EXCEPT ![t] = Cid(t)]
    /\ pc' = [pc EXCEPT ![t] = "done"]
    /\ UNCHANGED <<notDL, cacheVars, arg, downloads_in_progress, eventSet, waitOn,
                   pendingExc, netDownloads, cacheWrites, netFailures>>

\* lines 203-211: the HEAD request, which succeeds or raises
HeadRequest(t) ==
    /\ pc[t] = "head"
    /\ \/ /\ pc' = [pc EXCEPT ![t] = "get"]
          /\ UNCHANGED <<pendingExc, netFailures>>
       \/ /\ pc' = [pc EXCEPT ![t] = "finally"]
          /\ pendingExc' = [pendingExc EXCEPT ![t] = TRUE]
          /\ netFailures' = netFailures + 1
    /\ UNCHANGED <<notDL, cacheVars, arg, lock, downloads_in_progress, eventSet, waitOn,
                   ret, netDownloads, cacheWrites>>

\* lines 214-235, 247-250: the streamed GET, which succeeds or raises
GetRequest(t) ==
    /\ pc[t] = "get"
    /\ netDownloads' = [netDownloads EXCEPT ![Cid(t)] = @ + 1]
    /\ \/ /\ pc' = [pc EXCEPT ![t] = "store"]
          /\ UNCHANGED <<pendingExc, netFailures>>
       \/ /\ pc' = [pc EXCEPT ![t] = "finally"]
          /\ pendingExc' = [pendingExc EXCEPT ![t] = TRUE]
          /\ netFailures' = netFailures + 1
    /\ UNCHANGED <<notDL, cacheVars, arg, lock, downloads_in_progress, eventSet, waitOn,
                   ret, cacheWrites>>

\* lines 237-245: cache.store_audio_data, which stores or raises CacheError
Store(t) ==
    /\ pc[t] = "store"
    /\ \/ /\ files' = Put(files, GetAudioPath(Cid(t), GetMediaType(arg[t])),
                           RemoteBytes(arg[t]))
          /\ cache_index' = StoreAudioIndex(cache_index, Cid(t), None,
                                            GetMediaType(arg[t]))
          /\ cacheWrites' = [cacheWrites EXCEPT ![Cid(t)] = @ + 1]
          /\ UNCHANGED <<pendingExc, netFailures>>
       \/ /\ pendingExc' = [pendingExc EXCEPT ![t] = TRUE]
          /\ netFailures' = netFailures + 1
          /\ UNCHANGED <<cacheVars, cacheWrites>>
    /\ pc' = [pc EXCEPT ![t] = "finally"]
    /\ UNCHANGED <<notDL, arg, lock, downloads_in_progress, eventSet, waitOn, ret,
                   netDownloads>>

\* lines 252-261: the finally block takes self.lock, sets and removes the
\* Event; then the call returns the content id or raises AudioDownloadError
Finally(t) ==
    /\ pc[t] = "finally"
    /\ lock = NoThread
    /\ IF Cid(t) \in DOMAIN downloads_in_progress
       THEN /\ eventSet' = eventSet \cup {downloads_in_progress[Cid(t)]}
            /\ downloads_in_progress' = Del(downloads_in_progress, Cid(t))
       ELSE UNCHANGED <<eventSet, downloads_in_progress>>
    /\ ret' = [ret EXCEPT ![t] = IF pendingExc[t] THEN Raised ELSE Cid(t)]
    /\ pc' = [pc EXCEPT ![t] = "done"]
    /\ UNCHANGED <<notDL, cacheVars, arg, lock, waitOn, pendingExc, netDownloads,
                   cacheWrites, netFailures>>

DLNext ==
    \E t \in Threads :
        \/ \E u \in Urls : Call(t, u)
        \/ CheckCache(t)
        \/ LockCheck(t)
        \/ ReturnContentId(t)
        \/ HeadRequest(t)
        \/ GetRequest(t)
        \/ Store(t)
        \/ Finally(t)

(***************************************************************************)
(* DownloadTracker.  failed_items is a dict; Python keeps its insertion    *)
(* order, so it is a sequence of entries here.                             *)
(***************************************************************************)
max_retry_attempts == 3

\* the work items: entries of a case list, as the listing endpoint serves them
Dockets == {"17-1618", "18-280", "19-7"}
Cases == { [term |-> "2019", docket_number |-> d] : d \in Dockets }
ItemId(case) == CaseId(case.term, case.docket_number)
ItemIds == { ItemId(c) : c \in Cases }

\* _save_tracker, lines 91-96: the document written; last_updated and
\* version are left out
TrackerDoc_Empty(fi) == [kind |-> "json", failed_items |-> << >>]
TrackerDoc(fi) == [kind |-> "json", failed_items |-> fi]

\* what the tracker path can hold besides a document of the tracker: no
\* file, text that is not JSON, JSON that is not an object, and an object
\* without "failed_items"
MissingFile == [kind |-> "missing"]
DamagedFiles == {[kind |-> "invalid_json"], [kind |-> "not_object"],
                 [kind |-> "no_failed_items"]}

\* _load_or_initialize_tracker, lines 58-70: data.get("failed_items", {})
\* of the loaded object; an exception leaves self.failed_items = {}
LoadTracker_KeepMemory(file) ==
    IF file.kind = "json" THEN file.failed_items ELSE failed_items
LoadTracker(file) == IF file.kind = "json" THEN file.failed_items ELSE << >>

\* storage.write_json in _save_tracker: the file is written, or the write
\* is refused and the file is as before, or it breaks off and leaves a
\* truncated file; _save_tracker logs the exception and returns (97-100)
WriteOutcomes == {"ok", "refused", "torn"}
SaveTracker(fi, write) ==
    /\ write # "ok" => saveFailures < MaxSaveFailures
    /\ tracker_file' = CASE write = "ok" -> TrackerDoc(fi)
                         [] write = "refused" -> tracker_file
                         [] write = "torn" -> [kind |-> "invalid_json"]
    /\ lastSave' = IF write = "ok" THEN "ok" ELSE "failed"
    /\ saveFailures' = IF write = "ok" THEN saveFailures ELSE saveFailures + 1

\* __init__ on a path without a file: the file is created (lines 71-82)
TrackerInit ==
    /\ failed_items = << >>
    /\ marks = [i \in ItemIds |-> 0]
    /\ tracker_file = TrackerDoc(<< >>)
    /\ lastSave = "ok"
    /\ saveFailures = 0
    /\ trackerOp = [op |-> "__init__", found |-> "missing"]

\* `item_id in self.failed_items`
Tracked(fi, item_id) == \E k \in DOMAIN fi : fi[k].id = item_id
IndexOf(fi, item_id) == CHOOSE k \in DOMAIN fi : fi[k].id = item_id

\* mark_failed, lines 114-123: the dict after the call
MarkFailedItems_Replace(fi, item_id, item_data) ==
    Append(SelectSeq(fi, LAMBDA e : e.id # item_id),
           [id |-> item_id, item_data |-> item_data, attempts |-> 1])
MarkFailedItems(fi, item_id, item_data) ==
    IF Tracked(fi, item_id)
    THEN [fi EXCEPT ![IndexOf(fi, item_id)].attempts = @ + 1]
    ELSE Append(fi, [id |-> item_id, item_data |-> item_data, attempts |-> 1])

\* mark_successful, lines 138-140: the dict after the call
MarkSuccessfulItems(fi, item_id) ==
    SelectSeq(fi, LAMBDA e : e.id # item_id)

\* (variant: the retry limit is exclusive)
Retriable_Exclusive(entry) == entry.attempts < max_retry_attempts

\* lines 152-155, 168-169, 185-186: attempts <= self.max_retry_attempts
Retriable(entry) == entry.attempts <= max_retry_attempts

RECURSIVE MapRetry(_)
MapRetry(fi) ==
    IF fi = << >> THEN << >>
    ELSE <<<<Head(fi).id, Head(fi).item_data>>>> \o MapRetry(Tail(fi))

\* get_failed_items_for_retry: the (item_id, item_data) pairs, in dict order
GetFailedItemsForRetry(fi) == MapRetry(SelectSeq(fi, Retriable))

\* has_failed_items_for_retry, lines 166-170
HasFailedItemsForRetry_Any(fi) == fi # << >>
HasFailedItemsForRetry(fi) == \E k \in DOMAIN fi : Retriable(fi[k])

\* get_stats, lines 176-195
GetStats(fi) ==
    [total_failed |-> Len(fi),
     retriable |-> Cardinality({k \in DOMAIN fi : Retriable(fi[k])}),
     permanent_failures |-> Cardinality({k \in DOMAIN fi : ~Retriable(fi[k])})]

\* mark_failed(item_id, item_data), lines 114-126
MarkFailed(c, write) ==
    /\ marks[ItemId(c)] < MaxMarks
    /\ failed_items' = MarkFailedItems(failed_items, ItemId(c), c)
    /\ marks' = [marks EXCEPT ![ItemId(c)] = @ + 1]
    /\ SaveTracker(MarkFailedItems(failed_items, ItemId(c), c), write)
    /\ trackerOp' = [op |-> "mark_failed", found |-> "none"]
    /\ UNCHANGED notTracker

\* mark_successful(item_id), lines 138-140: the file is saved only when the
\* item was tracked
MarkSuccessful(c, write) ==
    /\ failed_items' = MarkSuccessfulItems(failed_items, ItemId(c))
    /\ marks' = [marks EXCEPT ![ItemId(c)] = 0]
    /\ IF Tracked(failed_items, ItemId(c))
       THEN /\ SaveTracker(MarkSuccessfulItems(failed_items, ItemId(c)), write)
            /\ trackerOp' = [op |-> "mark_successful", found |-> "none"]
       ELSE /\ write = "ok"
            /\ trackerOp' = [op |-> "mark_successful_untracked", found |-> "none"]
            /\ UNCHANGED <<tracker_file, lastSave, saveFailures>>
    /\ UNCHANGED notTracker

\* reset(), lines 203-204
Reset(write) ==
    /\ failed_items' = << >>
    /\ marks' = [i \in ItemIds |-> 0]
    /\ SaveTracker(<< >>, write)
    /\ trackerOp' = [op |-> "reset", found |-> "none"]
    /\ UNCHANGED notTracker

TrackerNext ==
    \/ \E c \in Cases, write \in WriteOutcomes : MarkFailed(c, write)
    \/ \E c \in Cases, write \in WriteOutcomes : MarkSuccessful(c, write)
    \/ \E write \in WriteOutcomes : Reset(write)

\* the tracker file is removed or overwritten from outside the program
FileDamaged(file) ==
    /\ tracker_file # file
    /\ tracker_file' = file
    /\ trackerOp' = [op |-> "file_damaged", found |-> "none"]
    /\ UNCHANGED <<failed_items, marks, lastSave, saveFailures>>
    /\ UNCHANGED notTracker

\* DownloadTracker(storage, cache_dir) on the file as it is now, lines
\* 43-82: an existing file is loaded and not rewritten, a missing one is
\* created by _save_tracker; no exception leaves the constructor
NewDownloadTracker(write) ==
    /\ failed_items' = LoadTracker(tracker_file)
    /\ marks' = [i \in ItemIds |->
                    IF Tracked(LoadTracker(tracker_file), i)
                    THEN LoadTracker(tracker_file)[IndexOf(LoadTracker(tracker_file), i)].attempts
                    ELSE 0]
    /\ IF tracker_file = MissingFile
       THEN SaveTracker(<< >>, write)
       ELSE write = "ok" /\ UNCHANGED <<tracker_file, lastSave, saveFailures>>
    /\ trackerOp' = [op |-> "__init__", found |-> tracker_file.kind]
    /\ UNCHANGED notTracker

TrackerFileNext ==
    \/ TrackerNext
    \/ \E file \in DamagedFiles \cup {MissingFile} : FileDamaged(file)
    \/ \E write \in WriteOutcomes : NewDownloadTracker(write)

(***************************************************************************)
(* RawDataScraperService.scrape_case and scrape_term, called one after the *)
(* other, against a remote whose records and listings change over time.    *)
(***************************************************************************)
ScrapeTerms == {"2019"}
ScrapeDockets == {"17-1618", "18-280"}
ListName(term) == <<"term_", term>>
ScrapeKeys == { CaseId(tm, d) : tm \in ScrapeTerms, d \in ScrapeDockets }
                \cup { ListName(tm) : tm \in ScrapeTerms }

\* api_client.get_case_by_id: the record the remote serves at revision rev
RemoteCase(term, docket, rev) == [term |-> term, docket_number |-> docket, rev |-> rev]

\* api_client.get_cases_by_term: the listing the remote serves at revision
\* rev; a later revision lists one more case
RemoteTermList(term, rev) ==
    <<[term |-> term, docket_number |-> "17-1618"]>>
    \o (IF rev > 0 THEN <<[term |-> term, docket_number |-> "18-280"]>> ELSE << >>)

\* get_case_data, lines 141-146
GetCaseData(case_id) == JsonLoad(files[GetCasePath(case_id)])

\* get_case_list, lines 313-321
GetCaseList(list_name) == JsonLoad(files[cache_index.case_lists[list_name].path])

\* (variant: the cache is never consulted)
UseCachedCase_Never(case_id, force_refresh) == FALSE

\* scrape_case line 152
UseCachedCase(case_id, force_refresh) == ~force_refresh /\ CaseExists(case_id)

\* scrape_term line 75
UseCachedList(list_name, force_refresh) == ~force_refresh /\ CaseListExists(list_name)

NoCall == [op |-> "none", key |-> << >>, force |-> FALSE, cached |-> FALSE,
           outcome |-> "none", net |-> 0, writes |-> 0, data |-> << >>, prev |-> << >>]

ScraperInit ==
    /\ remoteRev = [k \in ScrapeKeys |-> 0]
    /\ returned = [k \in ScrapeKeys |-> << >>]
    /\ lastCall = NoCall

\* the call's record: was the key cached when the call began, how the call
\* ended, the network calls and cache writes it made, what it returned and
\* what the previous successful call for the key had returned
CallRecord(op, key, force, cached, outcome, net, writes, data) ==
    [op |-> op, key |-> key, force |-> force, cached |-> cached, outcome |-> outcome,
     net |-> net, writes |-> writes, data |-> data, prev |-> returned[key]]

\* the remote record or listing changes
RemoteUpdate(k) ==
    /\ remoteRev[k] < MaxRev
    /\ remoteRev' = [remoteRev EXCEPT ![k] = @ + 1]
    /\ UNCHANGED <<notScraper, cacheVars, returned, lastCall>>

\* scrape_case(term, docket, force_refresh), lines 149-167
ScrapeCase(term, docket, force_refresh) ==
    LET case_id == CaseId(term, docket)
        cached == CaseExists(case_id)
        case_data == RemoteCase(term, docket, remoteRev[case_id])
    IN  /\ IF UseCachedCase(case_id, force_refresh)
           THEN \* lines 152-154
                /\ lastCall' = CallRecord("scrape_case", case_id, force_refresh, cached,
                                          "ok", 0, 0, <<GetCaseData(case_id)>>)
                /\ returned' = [returned EXCEPT ![case_id] = <<GetCaseData(case_id)>>]
                /\ UNCHANGED cacheVars
           ELSE \/ \* line 159 raises OyezApiError
                   /\ lastCall' = CallRecord("scrape_case", case_id, force_refresh,
                                             cached, "raised", 1, 0, << >>)
                   /\ UNCHANGED <<cacheVars, returned>>
                \/ \* line 162 raises CacheError: the blob could not be written
                   /\ lastCall' = CallRecord("scrape_case", case_id, force_refresh,
                                             cached, "raised", 1, 0, << >>)
                   /\ UNCHANGED <<cacheVars, returned>>
                \/ \* lines 159-164
                   /\ files' = Put(files, GetCasePath(case_id), JsonDump(case_data))
                   /\ cache_index' = StoreCaseIndex(cache_index, case_id)
                   /\ lastCall' = CallRecord("scrape_case", case_id, force_refresh,
                                             cached, "ok", 1, 1, <<case_data>>)
                   /\ returned' = [returned EXCEPT ![case_id] = <<case_data>>]
        /\ UNCHANGED <<notScraper, remoteRev>>

\* scrape_term(term, force_refresh), lines 72-90
ScrapeTerm(term, force_refresh) ==
    LET list_name == ListName(term)
        cached == CaseListExists(list_name)
        cases == RemoteTermList(term, remoteRev[list_name])
    IN  /\ IF UseCachedList(list_name, force_refresh)
           THEN \* lines 75-77
                /\ lastCall' = CallRecord("scrape_term", list_name, force_refresh, cached,
                                          "ok", 0, 0, <<GetCaseList(list_name)>>)
                /\ returned' = [returned EXCEPT ![list_name] = <<GetCaseList(list_name)>>]
                /\ UNCHANGED cacheVars
           ELSE \/ \* line 82 raises OyezApiError
                   /\ lastCall' = CallRecord("scrape_term", list_name, force_refresh,
                                             cached, "raised", 1, 0, << >>)
                   /\ UNCHANGED <<cacheVars, returned>>
                \/ \* line 85 raises CacheError: the blob could not be written
                   /\ lastCall' = CallRecord("scrape_term", list_name, force_refresh,
                                             cached, "raised", 1, 0, << >>)
                   /\ UNCHANGED <<cacheVars, returned>>
                \/ \* lines 82-87
                   /\ files' = Put(files, GetListPath(list_name), JsonDump(cases))
                   /\ cache_index' = StoreListIndex(cache_index, list_name, cases)
                   /\ lastCall' = CallRecord("scrape_term", list_name, force_refresh,
                                             cached, "ok", 1, 1, <<cases>>)
                   /\ returned' = [returned EXCEPT ![list_name] = <<cases>>]
        /\ UNCHANGED <<notScraper, remoteRev>>

ScraperNext ==
    \/ \E k \in ScrapeKeys : RemoteUpdate(k)
    \/ \E tm \in ScrapeTerms, d \in ScrapeDockets, f \in BOOLEAN : ScrapeCase(tm, d, f)
    \/ \E tm \in ScrapeTerms, f \in BOOLEAN : ScrapeTerm(tm, f)

(***************************************************************************)
(* DownloadService: download_multiple_terms for one term.  The main pass   *)
(* submits _process_case for every entry of the term's listing to the      *)
(* worker pool; _retry_failed_cases then runs its rounds.  Each worker     *)
(* advances on its own; the pool's `with` block ends when all returned.    *)
(***************************************************************************)
\* _retry_failed_cases(max_retries=3)
max_retries == 3

\* the listing of the term: two cases and an entry without a docket number
MalformedCase == [term |-> "2019", docket_number |-> None]
WorkList == << [term |-> "2019", docket_number |-> "17-1618"],
               MalformedCase,
               [term |-> "2019", docket_number |-> "18-280"] >>
WorkItems == { WorkList[k] : k \in DOMAIN WorkList }

\* line 168: `if not term or not docket`
HasTermAndDocket(case) == case.term # None /\ case.docket_number # None

\* get_case_audio_content, flattened over the content types: the hrefs of
\* the record's audio content items, each a path of segments
AudioContent(case) ==
    IF case.docket_number = "17-1618"
    THEN << <<"case_media", "oral_argument_audio", "24097">>,
            <<"case_media", "opinion_announcement_audio", "24098">> >>
    ELSE << >>

\* RawDataScraperService._generate_content_id: the path's slashes become
\* underscores
RECURSIVE ScraperGenerateContentId(_)
ScraperGenerateContentId(href) ==
    IF Len(href) <= 1 THEN href
    ELSE <<Head(href), "_">> \o ScraperGenerateContentId(Tail(href))

\* _content_data_exists / _cache_content_data: list_name = f"content_{id}"
ContentListName(content_id) == <<"content_">> \o content_id

\* get_oral_argument / get_opinion_announcement: the detail the remote
\* serves for a content href, with its media file
ContentDetail(href) ==
    [href |-> href,
     media_file |-> [path |-> href,
                     ext |-> IF href[2] = "oral_argument_audio" THEN "mp3" ELSE None]]

\* extract_audio_url
ExtractAudioUrl(detail) == detail.media_file

\* RawDataScraperService._get_media_type
ScraperGetMediaType(url) == IF url.ext # None THEN url.ext ELSE "mp3"

\* how one asset's download can end (_download_audio_file, lines 280-310)
DownloadOutcomes == {"ok", "no_audio_url", "not_accessible", "request_error", "cache_error"}
\* the outcomes _download_audio_file turns into `return None`
SwallowedOutcomes == {"not_accessible", "request_error"}

NoResult == [success |-> FALSE, audio_count |-> 0]

SvcInit ==
    /\ svcPhase = "idle"
    /\ skip_audio = FALSE
    /\ retry_round = 0
    /\ retry_items = << >>
    /\ batch = << >>
    /\ wpc = [c \in WorkItems |-> "none"]
    /\ assetIdx = [c \in WorkItems |-> 1]
    /\ result = [c \in WorkItems |-> NoResult]
    /\ failedStep = [c \in WorkItems |-> "none"]
    /\ invoked = {}
    /\ sleepLog = << >>
    /\ interrupted = FALSE
    /\ lateDispatch = {}
    /\ final_stats = None

\* `return success, audio_count`
ReturnResult(c, success, audio_count) ==
    /\ wpc' = [wpc EXCEPT ![c] = "returned"]
    /\ result' = [result EXCEPT ![c] = [success |-> success, audio_count |-> audio_count]]

\* (variant: the handler drops the failure)
ExceptionHandlerItems_Drop(fi, case_id, case) == fi

\* lines 208-211: except Exception -> mark_failed(case_id, case)
ExceptionHandlerItems(fi, case_id, case) == MarkFailedItems(fi, case_id, case)

\* lines 208-212
OnException(c, step) ==
    /\ failed_items' = ExceptionHandlerItems(failed_items, ItemId(c), c)
    /\ marks' = [marks EXCEPT ![ItemId(c)] = @ + 1]
    /\ SaveTracker(ExceptionHandlerItems(failed_items, ItemId(c), c), "ok")
    /\ trackerOp' = [op |-> "mark_failed", found |-> "none"]
    /\ failedStep' = [failedStep EXCEPT ![c] = step]
    /\ ReturnResult(c, FALSE, 0)

\* lines 188-190, 205-206: mark_successful and return
OnSuccess(c, audio_count) ==
    /\ failed_items' = MarkSuccessfulItems(failed_items, ItemId(c))
    /\ marks' = [marks EXCEPT ![ItemId(c)] = 0]
    /\ IF Tracked(failed_items, ItemId(c))
       THEN /\ SaveTracker(MarkSuccessfulItems(failed_items, ItemId(c)), "ok")
            /\ trackerOp' = [op |-> "mark_successful", found |-> "none"]
       ELSE UNCHANGED <<tracker_file, lastSave, saveFailures, trackerOp>>
    /\ ReturnResult(c, TRUE, audio_count)

\* download_multiple_terms -> download_term, lines 234-244: the listing is
\* scraped and one _process_case per entry is submitted; a listing that
\* cannot be fetched leaves nothing to process (lines 310-313)
DownloadMultipleTerms(skip) ==
    LET list_name == ListName("2019") IN
    /\ svcPhase = "idle"
    /\ svcPhase' = "main"
    /\ skip_audio' = skip
    /\ \/ /\ files' = Put(files, GetListPath(list_name), JsonDump(WorkList))
          /\ cache_index' = StoreListIndex(cache_index, list_name, WorkList)
          /\ batch' = WorkList
          /\ wpc' = [c \in WorkItems |-> "queued"]
       \/ /\ batch' = << >>
          /\ UNCHANGED <<cacheVars, wpc>>
    /\ UNCHANGED <<retry_round, retry_items, assetIdx, result, failedStep, invoked>>
    /\ UNCHANGED <<sleepLog, interrupted, lateDispatch, final_stats>>
    /\ UNCHANGED <<notSvc, trackerVars>>

\* _process_case, lines 165-190: up to the record fetch
ProcessCase(c) ==
    LET case_id == ItemId(c)
        case_data == RemoteCase(c.term, c.docket_number, remoteRev[case_id])
    IN
    /\ svcPhase \in {"main", "retry"}
    /\ wpc[c] = "queued"
    /\ invoked' = invoked \cup {c}
    /\ lateDispatch' = IF interrupted THEN lateDispatch \cup {c} ELSE lateDispatch
    /\ IF ~HasTermAndDocket(c)
       THEN \* lines 168-170
            /\ ReturnResult(c, FALSE, 0)
            /\ failedStep' = [failedStep EXCEPT ![c] = "none"]
            /\ UNCHANGED <<cacheVars, trackerVars, assetIdx>>
       ELSE \/ \* scrape_case raises (OyezApiError at line 159, CacheError at 162)
               /\ ~UseCachedCase(case_id, FALSE)
               /\ OnException(c, "record")
               /\ UNCHANGED <<cacheVars, assetIdx>>
            \/ \* scrape_case returns the record
               /\ IF UseCachedCase(case_id, FALSE)
                  THEN UNCHANGED cacheVars
                  ELSE /\ files' = Put(files, GetCasePath(case_id), JsonDump(case_data))
                       /\ cache_index' = StoreCaseIndex(cache_index, case_id)
               /\ IF skip_audio
                  THEN /\ OnSuccess(c, 0)
                       /\ failedStep' = [failedStep EXCEPT ![c] = "none"]
                       /\ UNCHANGED assetIdx
                  ELSE /\ wpc' = [wpc EXCEPT ![c] = "assets"]
                       /\ assetIdx' = [assetIdx EXCEPT ![c] = 1]
                       /\ failedStep' = [failedStep EXCEPT ![c] = "none"]
                       /\ UNCHANGED <<trackerVars, result>>
    /\ UNCHANGED <<svcPhase, skip_audio, retry_round, retry_items, batch>>
    /\ UNCHANGED <<sleepLog, interrupted, final_stats>>
    /\ UNCHANGED notSvc

\* the loop of scrape_case_audio_content stays at the same item
NextAsset(c) ==
    /\ assetIdx' = [assetIdx EXCEPT ![c] = @ + 1]
    /\ UNCHANGED <<trackerVars, wpc, result>>

\* one iteration of scrape_case_audio_content's loop (lines 196-241) with
\* its call of _download_audio_file (lines 274-313)
ScrapeAsset(c) ==
    LET href == AudioContent(c)[assetIdx[c]]
        content_id == ScraperGenerateContentId(href)
        list_name == ContentListName(content_id)
        detail == ContentDetail(href)
        audio_url == ExtractAudioUrl(detail)
        media_type == ScraperGetMediaType(audio_url)
        metaCached == CaseListExists(list_name)
        \* the cache once the detail is known (lines 207-234)
        files1 == IF metaCached THEN files
                  ELSE Put(files, GetListPath(list_name), JsonDump(<<detail>>))
        index1 == IF metaCached THEN cache_index
                  ELSE StoreListIndex(cache_index, list_name, <<detail>>)
    IN
    /\ svcPhase \in {"main", "retry"}
    /\ wpc[c] = "assets"
    /\ assetIdx[c] <= Len(AudioContent(c))
    /\ \/ \* the detail fetch raises OyezApiError (lines 214-231), or
          \* _cache_content_data raises CacheError (line 234)
          /\ ~metaCached
          /\ OnException(c, "metadata")
          /\ UNCHANGED <<cacheVars, assetIdx>>
       \/ \* lines 276-278: the audio is cached already
          /\ AudioExists(content_id)
          /\ files' = files1
          /\ cache_index' = index1
          /\ NextAsset(c)
          /\ UNCHANGED failedStep
       \/ /\ ~AudioExists(content_id)
          /\ \E outcome \in DownloadOutcomes :
                CASE outcome = "ok" ->
                        \* lines 297-306
                        /\ files' = Put(files1, GetAudioPath(content_id, media_type),
                                        RemoteBytes(audio_url))
                        /\ cache_index' = StoreAudioIndex(index1, content_id,
                                                          ItemId(c), media_type)
                        /\ NextAsset(c)
                        /\ UNCHANGED failedStep
                  [] outcome \in SwallowedOutcomes ->
                        \* lines 287-289, 308-310: logged, `return None`
                        /\ files' = files1
                        /\ cache_index' = index1
                        /\ NextAsset(c)
                        /\ failedStep' = [failedStep EXCEPT ![c] = "download"]
                  [] OTHER ->
                        \* extract_audio_url raises OyezResourceNotFoundError
                        \* (line 281), store_audio_data raises CacheError (302)
                        /\ files' = files1
                        /\ cache_index' = index1
                        /\ OnException(c, "download")
                        /\ UNCHANGED assetIdx
    /\ UNCHANGED <<svcPhase, skip_audio, retry_round, retry_items, batch, invoked>>
    /\ UNCHANGED <<sleepLog, interrupted, lateDispatch, final_stats>>
    /\ UNCHANGED notSvc

\* _process_case, lines 193-206: the audio content is scraped
FinishCase(c) ==
    /\ svcPhase \in {"main", "retry"}
    /\ wpc[c] = "assets"
    /\ assetIdx[c] > Len(AudioContent(c))
    /\ OnSuccess(c, Len(AudioContent(c)))
    /\ UNCHANGED <<cacheVars, assetIdx, failedStep>>
    /\ UNCHANGED <<svcPhase, skip_audio, retry_round, retry_items, batch, invoked>>
    /\ UNCHANGED <<sleepLog, interrupted, lateDispatch, final_stats>>
    /\ UNCHANGED notSvc

\* the pool's `with` block has ended: every submitted call returned
AllReturned == \A k \in DOMAIN batch : wpc[batch[k]] = "returned"

\* (variant: every round submits the whole listing again)
SubmittedCases_All(items) == WorkList

\* lines 455-459: one _process_case per (item_id, case) pair
SubmittedCases(items) == [k \in DOMAIN items |-> items[k][2]]

\* lines 441-459: the head of one iteration of the while loop
BeginRound(round) ==
    LET items == GetFailedItemsForRetry(failed_items)
        cases == SubmittedCases(items)
    IN
    /\ retry_round' = round
    /\ retry_items' = items
    /\ invoked' = {}
    /\ IF items = << >>
       THEN \* lines 447-449
            /\ svcPhase' = "finished"
            /\ UNCHANGED <<batch, wpc>>
       ELSE /\ svcPhase' = "retry"
            /\ batch' = cases
            /\ wpc' = [c \in WorkItems |->
                         IF \E k \in DOMAIN cases : cases[k] = c
                         THEN "queued" ELSE wpc[c]]

\* lines 479-482: is there another round?
ContinueRetry(round) == round < max_retries /\ HasFailedItemsForRetry(failed_items)

\* line 434: `retry_wait = 60`
retry_wait == 60

\* (variant: the same wait after every round)
WaitAfterRound_Flat(round) == retry_wait
\* line 483: wait_time = retry_wait * retry_round
WaitAfterRound(round) == retry_wait * round

\* lines 399-413 of download_all_cases, 320-334 of download_multiple_terms:
\* final_stats is computed and logged once the retry phase has returned
LogFinalStats == final_stats' = IF svcPhase' = "finished" THEN "logged" ELSE final_stats

\* _retry_failed_cases, lines 431-444: entered after the main pass
RetryFailedCases ==
    /\ svcPhase = "main"
    /\ ~interrupted
    /\ AllReturned
    /\ IF ~HasFailedItemsForRetry(failed_items)
       THEN \* lines 435-437
            /\ svcPhase' = "finished"
            /\ UNCHANGED <<retry_round, retry_items, batch, wpc, invoked>>
       ELSE BeginRound(1)
    /\ LogFinalStats
    /\ UNCHANGED <<skip_audio, assetIdx, result, failedStep>>
    /\ UNCHANGED <<sleepLog, interrupted, lateDispatch>>
    /\ UNCHANGED <<notSvc, cacheVars, trackerVars>>

\* _retry_failed_cases, lines 461-487: a round's pool is done; the thread
\* sleeps (lines 479-485) and enters the next iteration, or leaves the loop
NextRetryRound ==
    /\ svcPhase = "retry"
    /\ ~interrupted
    /\ AllReturned
    /\ IF ContinueRetry(retry_round)
       THEN /\ sleepLog' = Append(sleepLog, [after_round |-> retry_round,
                                             wait_time |-> WaitAfterRound(retry_round)])
            /\ BeginRound(retry_round + 1)
       ELSE /\ svcPhase' = "finished"
            /\ UNCHANGED <<retry_round, retry_items, batch, wpc, invoked, sleepLog>>
    /\ LogFinalStats
    /\ UNCHANGED <<skip_audio, assetIdx, result, failedStep>>
    /\ UNCHANGED <<interrupted, lateDispatch>>
    /\ UNCHANGED <<notSvc, cacheVars, trackerVars>>

\* the process is interrupted while the main thread waits in as_completed
\* (lines 248, 378): KeyboardInterrupt is not an Exception, so neither the
\* loop's handler nor download_term's catches it.  It leaves the pool's
\* `with` block, whose exit waits for every submitted call: the calls still
\* queued are run by the workers all the same.
KeyboardInterrupt ==
    /\ svcPhase \in {"main", "retry"}
    /\ ~interrupted
    /\ ~AllReturned
    /\ interrupted' = TRUE
    /\ UNCHANGED <<svcPhase, skip_audio, retry_round, retry_items, batch, wpc, assetIdx,
                   result, failedStep, invoked, sleepLog, lateDispatch, final_stats>>
    /\ UNCHANGED <<notSvc, cacheVars, trackerVars>>

\* the pool has shut down; `finally` stops the monitor (lines 415-417) and
\* the exception reaches main, which logs "Download interrupted by user"
\* (download_cli.py lines 221-222).  The retry phase and the final_stats
\* lines are skipped.
ExitInterrupted ==
    /\ svcPhase \in {"main", "retry"}
    /\ interrupted
    /\ AllReturned
    /\ svcPhase' = "interrupted"
    /\ UNCHANGED <<skip_audio, retry_round, retry_items, batch, wpc, assetIdx, result,
                   failedStep, invoked, sleepLog, interrupted, lateDispatch, final_stats>>
    /\ UNCHANGED <<notSvc, cacheVars, trackerVars>>

SvcNext ==
    \/ \E skip \in BOOLEAN : DownloadMultipleTerms(skip)
    \/ \E c \in WorkItems : ProcessCase(c)
    \/ \E c \in WorkItems : ScrapeAsset(c)
    \/ \E c \in WorkItems : FinishCase(c)
    \/ RetryFailedCases
    \/ NextRetryRound

\* a run that the user may interrupt
InterruptNext ==
    \/ \E skip \in BOOLEAN : DownloadMultipleTerms(skip)
    \/ \E c \in WorkItems : ProcessCase(c)
    \/ \E c \in WorkItems : ScrapeAsset(c)
    \/ \E c \in WorkItems : FinishCase(c)
    \/ RetryFailedCases
    \/ NextRetryRound
    \/ KeyboardInterrupt
    \/ ExitInterrupted

(***************************************************************************)
(* PaginationMixin.iter_paginated_resource, consumed to its end, and the   *)
(* list operations of OyezCaseClient.  The remote serves a resource as     *)
(* pages; past its last page it serves empty pages.                        *)
(***************************************************************************)
\* OyezCaseClient.MAX_PAGE_SIZE
MAX_PAGE_SIZE == 1000

\* `per_page = None`
NoPerPage == -1

\* a remote resource: the number of items of each of its pages
Remotes == [1 .. MaxPages -> 0 .. MaxPageItems]

\* (variant: a remote that never runs out of items)
GetPageResource_Endless(remote, p) ==
    [k \in 1 .. MaxPageItems |-> [page |-> p, item |-> k]]
\* get_page_resource(endpoint, params, page): the items of page p (0-indexed)
GetPageResource(remote, p) ==
    IF p + 1 \in DOMAIN remote
    THEN [k \in 1 .. remote[p + 1] |-> [page |-> p, item |-> k]]
    ELSE << >>

\* params["per_page"]: absent, not an integer, or an integer
PerPageParams ==
    { [kind |-> "absent", value |-> 0], [kind |-> "invalid", value |-> 0] }
    \cup { [kind |-> "int", value |-> n] : n \in 0 .. MaxPageItems }

\* lines 95-102: int(params["per_page"]) when present and valid
ParsePerPage(param) == IF param.kind = "int" THEN param.value ELSE NoPerPage

\* lines 118-120: per_page is taken from the first page when still unknown
EffectivePerPage(pp, p, page_data) ==
    IF pp = NoPerPage /\ p = 0 /\ page_data # << >> THEN Len(page_data) ELSE pp

\* (variant: a page of exactly per_page items also ends the iteration)
StopOnShortPage_Inclusive(pp, page_data, cont) ==
    pp # NoPerPage /\ Len(page_data) <= pp /\ ~cont

\* lines 133-137: a partial page ends the iteration
StopOnShortPage(pp, page_data, cont) ==
    pp # NoPerPage /\ Len(page_data) < pp /\ ~cont

NoListCall == [op |-> "none", remote |-> << >>, auto_paginate |-> FALSE,
               outcome |-> "none", cases |-> << >>, calls |-> 0]

PagInit ==
    /\ pagPc = "idle"
    /\ pagRemote = << >>
    /\ pagParam = [kind |-> "absent", value |-> 0]
    /\ continue_pagination_on_partial_page = FALSE
    /\ page = 0
    /\ per_page = NoPerPage
    /\ yielded = << >>
    /\ fetchCalls = 0
    /\ listCall = NoListCall
    /\ requestLog = << >>
    /\ pagOp = "none"

\* iter_paginated_resource(endpoint, params), lines 90-102
IterPaginatedResource(remote, param, cont) ==
    /\ pagPc = "idle"
    /\ listCall = NoListCall
    /\ pagPc' = "fetch"
    /\ pagOp' = "iter_paginated_resource"
    /\ pagRemote' = remote
    /\ pagParam' = param
    /\ continue_pagination_on_partial_page' = cont
    /\ page' = 0
    /\ per_page' = ParsePerPage(param)
    /\ UNCHANGED <<yielded, fetchCalls, listCall, requestLog>>
    /\ UNCHANGED notPag

\* one iteration of the while loop, lines 105-142
FetchPage ==
    LET page_data == GetPageResource(pagRemote, page)
        pp == EffectivePerPage(per_page, page, page_data)
    IN
    /\ pagPc = "fetch"
    /\ fetchCalls' = fetchCalls + 1
    \* get_page_resource, lines 55-63: the params are copied, page is set
    /\ requestLog' = Append(requestLog, [op |-> pagOp,
                                          auto_paginate |-> pagOp = "tracked_get_all_cases",
                                          caller |-> pagParam, per_page |-> pagParam])
    /\ IF page_data = << >>
       THEN \* lines 110-114
            /\ pagPc' = "done"
            /\ UNCHANGED <<page, per_page, yielded>>
       ELSE /\ per_page' = pp
            /\ yielded' = yielded \o page_data
            /\ IF StopOnShortPage(pp, page_data, continue_pagination_on_partial_page)
               THEN pagPc' = "done" /\ UNCHANGED page
               ELSE pagPc' = "fetch" /\ page' = page + 1
    /\ UNCHANGED <<pagRemote, pagParam, continue_pagination_on_partial_page, listCall,
                   pagOp>>
    /\ UNCHANGED notPag

\* docstring, lines 83-89: the iteration ends at the first empty page or,
\* unless continue_pagination_on_partial_page, at the first page with fewer
\* than per_page items; per_page is the request's, else the first page's size
RequestedPerPage(remote, param) ==
    IF param.kind = "int" THEN param.value ELSE Len(GetPageResource(remote, 0))

RECURSIVE TerminatingPage(_, _, _, _)
TerminatingPage(remote, pp, cont, p) ==
    IF \/ GetPageResource(remote, p) = << >>
       \/ ~cont /\ Len(GetPageResource(remote, p)) < pp
    THEN p
    ELSE TerminatingPage(remote, pp, cont, p + 1)

\* the items of pages 0 .. p, in page order
RECURSIVE PagesUpTo(_, _)
PagesUpTo(remote, p) ==
    IF p < 0 THEN << >>
    ELSE PagesUpTo(remote, p - 1) \o GetPageResource(remote, p)

\* the case listings the remote can serve: each page is empty, has one
\* case, or is a full page of MAX_PAGE_SIZE cases
CaseRemotes == [1 .. MaxPages -> {0, 1, MAX_PAGE_SIZE}]

\* self.get("cases", params={..., "page": p}): the number of cases on page p
CasePageSize(remote, p) == IF p + 1 \in DOMAIN remote THEN remote[p + 1] ELSE 0

\* `for item in page_data: if isinstance(item, dict): yield item`: the cases
\* of page p, kept as one run of `count` cases of that page
CaseChunk(remote, p) ==
    IF CasePageSize(remote, p) > 0
    THEN << [page |-> p, count |-> CasePageSize(remote, p)] >>
    ELSE << >>

\* iter_all_cases(labels, per_page, term), lines 113-187, consumed by list()
IterAllCases(remote, pp, term_given) ==
    IF term_given
    THEN \* lines 124-140
         [cases |-> CaseChunk(remote, 0), calls |-> 1]
    ELSE IF CasePageSize(remote, 0) = 0 \/ CasePageSize(remote, 0) < pp
    THEN \* lines 143-157
         [cases |-> CaseChunk(remote, 0), calls |-> 1]
    ELSE IF CasePageSize(remote, 1) < pp
    THEN \* lines 160-174
         [cases |-> CaseChunk(remote, 0) \o CaseChunk(remote, 1), calls |-> 2]
    ELSE \* lines 177-187
         [cases |-> CaseChunk(remote, 0) \o CaseChunk(remote, 1) \o CaseChunk(remote, 2),
          calls |-> 3]

\* docstrings, lines 99 and 52: "yields all cases, automatically handling
\* pagination": every page up to the first empty or short one
RECURSIVE FullCollection(_, _)
FullCollection(remote, p) ==
    IF CasePageSize(remote, p) = 0 THEN << >>
    ELSE IF CasePageSize(remote, p) < MAX_PAGE_SIZE THEN CaseChunk(remote, p)
    ELSE CaseChunk(remote, p) \o FullCollection(remote, p + 1)

\* the per_page argument a caller of a list operation passes
CallerPerPages == {NoPerPage, 30, 50}

\* `params["per_page"] = str(per_page)` when per_page is not None
PerPageParam(pp_arg) ==
    IF pp_arg = NoPerPage THEN [kind |-> "absent", value |-> 0]
    ELSE [kind |-> "int", value |-> pp_arg]

\* the page requests of a list operation of OyezCaseClient: iter_all_cases
\* sends per_page_str = str(MAX_PAGE_SIZE) in each (lines 114-115, 127, 143,
\* 160, 177); the single request without auto_paginate sends the caller's
CaseRequests(op, auto_paginate, pp_arg, calls) ==
    [k \in 1 .. calls |->
        [op |-> op, auto_paginate |-> auto_paginate, caller |-> PerPageParam(pp_arg),
         per_page |-> IF auto_paginate THEN PerPageParam(MAX_PAGE_SIZE)
                      ELSE PerPageParam(pp_arg)]]

\* get_all_cases(labels, auto_paginate, per_page), lines 62-91
GetAllCases(remote, auto_paginate, pp_arg) ==
    LET r == IF auto_paginate
             THEN IterAllCases(remote, MAX_PAGE_SIZE, FALSE)
             ELSE [cases |-> CaseChunk(remote, 0), calls |-> 1]
    IN
    /\ pagPc = "idle"
    /\ listCall = NoListCall
    /\ listCall' = [op |-> "get_all_cases", remote |-> remote,
                    auto_paginate |-> auto_paginate, outcome |-> "ok",
                    cases |-> r.cases, calls |-> r.calls]
    /\ requestLog' = CaseRequests("get_all_cases", auto_paginate, pp_arg, r.calls)
    /\ UNCHANGED <<pagPc, pagRemote, pagParam, continue_pagination_on_partial_page,
                   page, per_page, yielded, fetchCalls, pagOp>>
    /\ UNCHANGED notPag

\* get_cases_by_term(term, labels, auto_paginate), lines 213-243; the remote
\* is the listing under the term filter
GetCasesByTerm(remote, auto_paginate, pp_arg) ==
    LET r == IF auto_paginate
             THEN IterAllCases(remote, MAX_PAGE_SIZE, TRUE)
             ELSE [cases |-> CaseChunk(remote, 0), calls |-> 1]
    IN
    /\ pagPc = "idle"
    /\ listCall = NoListCall
    /\ listCall' = [op |-> "get_cases_by_term", remote |-> remote,
                    auto_paginate |-> auto_paginate,
                    \* lines 222-223, 238-239: OyezResourceNotFoundError
                    outcome |-> IF r.cases = << >> THEN "raised" ELSE "ok",
                    cases |-> r.cases, calls |-> r.calls]
    /\ requestLog' = CaseRequests("get_cases_by_term", auto_paginate, pp_arg, r.calls)
    /\ UNCHANGED <<pagPc, pagRemote, pagParam, continue_pagination_on_partial_page,
                   page, per_page, yielded, fetchCalls, pagOp>>
    /\ UNCHANGED notPag

\* TrackedOyezClient.get_all_cases(term, docket_number, per_page,
\* auto_paginate), lines 190-222 and 262-285: the caller's per_page goes into
\* params; with auto_paginate the pages are read by get_paginated_resource
TrackedGetAllCases(remote, auto_paginate, pp_arg) ==
    /\ pagPc = "idle"
    /\ listCall = NoListCall
    /\ pagOp' = "tracked_get_all_cases"
    /\ pagRemote' = remote
    /\ pagParam' = PerPageParam(pp_arg)
    /\ IF auto_paginate
       THEN \* line 222
            /\ pagPc' = "fetch"
            /\ page' = 0
            /\ per_page' = ParsePerPage(PerPageParam(pp_arg))
            /\ UNCHANGED <<yielded, fetchCalls, requestLog>>
       ELSE \* line 285: one request, whatever page the remote serves first
            /\ pagPc' = "returned"
            /\ yielded' = GetPageResource(remote, 0)
            /\ fetchCalls' = 1
            /\ requestLog' = << [op |-> "tracked_get_all_cases", auto_paginate |-> FALSE,
                                 caller |-> PerPageParam(pp_arg),
                                 per_page |-> PerPageParam(pp_arg)] >>
            /\ UNCHANGED <<page, per_page>>
    /\ UNCHANGED <<continue_pagination_on_partial_page, listCall>>
    /\ UNCHANGED notPag

\* a call starts only when no other call is under way
PagNext ==
    \/ /\ pagPc = "idle"
       /\ \E remote \in Remotes, param \in PerPageParams, cont \in BOOLEAN :
             IterPaginatedResource(remote, param, cont)
    \/ FetchPage
    \/ /\ pagPc = "idle"
       /\ \E remote \in CaseRemotes, auto \in BOOLEAN, pp_arg \in CallerPerPages :
             GetAllCases(remote, auto, pp_arg)
    \/ /\ pagPc = "idle"
       /\ \E remote \in CaseRemotes, auto \in BOOLEAN, pp_arg \in CallerPerPages :
             GetCasesByTerm(remote, auto, pp_arg)
    \/ /\ pagPc = "idle"
       /\ \E remote \in Remotes, auto \in BOOLEAN,
             pp_arg \in {NoPerPage} \cup (1 .. MaxPageItems) :
             TrackedGetAllCases(remote, auto, pp_arg)

(***************************************************************************)
(* PaginationMixin.get_paginated_resource over a remote whose page         *)
(* requests can fail.                                                      *)
(***************************************************************************)
\* what self.get can do for one page instead of returning its list: raise
\* an error of the client (OyezApiError and its kin), raise StopIteration,
\* or return a JSON body that is no list
FaultKinds == {"error", "StopIteration", "non_list"}
NoFault == [page |-> NoPerPage, kind |-> "none"]
PageFaults == {NoFault} \cup { [page |-> p, kind |-> k] : p \in 0 .. MaxPages, k \in FaultKinds }

NothingCollected == [outcome |-> "none", results |-> << >>, get_raised |-> "none"]

PagErrInit ==
    /\ pageFault = NoFault
    /\ collected = NothingCollected

\* (variant: every exception of self.get leaves get_page_resource)
PageFetchSwallows_Nothing(kind) == FALSE
\* get_page_resource, lines 62-68: StopIteration from self.get is caught and
\* an empty page returned in its place
PageFetchSwallows(kind) == kind = "StopIteration"

\* get_paginated_resource(endpoint, params), lines 161-165, entering
\* iter_paginated_resource (lines 90-102)
GetPaginatedResource(remote, param, cont, fault) ==
    /\ pagPc = "idle"
    /\ listCall = NoListCall
    /\ pagPc' = "collect"
    /\ pagOp' = "get_paginated_resource"
    /\ pagRemote' = remote
    /\ pagParam' = param
    /\ continue_pagination_on_partial_page' = cont
    /\ page' = 0
    /\ per_page' = ParsePerPage(param)
    /\ pageFault' = fault
    /\ UNCHANGED <<yielded, fetchCalls, listCall, requestLog, collected>>
    /\ UNCHANGED notPagErr

\* one iteration of iter_paginated_resource's loop (lines 104-142) as
\* get_paginated_resource consumes it, and the end of the call (lines
\* 166-173)
CollectPage ==
    LET faulty == pageFault.page = page
        raises == faulty /\ pageFault.kind \in {"error", "StopIteration"}
        swallowed == raises /\ PageFetchSwallows(pageFault.kind)
        \* what get_page_resource returns when it returns
        page_data == IF faulty THEN << >> ELSE GetPageResource(pagRemote, page)
        pp == EffectivePerPage(per_page, page, page_data)
        get_raised == IF raises THEN pageFault.kind ELSE collected.get_raised
    IN
    /\ pagPc = "collect"
    /\ fetchCalls' = fetchCalls + 1
    /\ IF raises /\ ~swallowed
       THEN \* the exception leaves the generator; lines 167-170 log and raise
            /\ pagPc' = "raised"
            /\ collected' = [outcome |-> "raised", results |-> << >>,
                             get_raised |-> get_raised]
            /\ UNCHANGED <<page, per_page, yielded>>
       ELSE IF page_data = << >>
       THEN \* lines 109-113: a non-list or empty page ends the iteration
            /\ pagPc' = "returned"
            /\ collected' = [outcome |-> "returned", results |-> yielded,
                             get_raised |-> get_raised]
            /\ UNCHANGED <<page, per_page, yielded>>
       ELSE /\ per_page' = pp
            /\ yielded' = yielded \o page_data
            /\ IF StopOnShortPage(pp, page_data, continue_pagination_on_partial_page)
               THEN /\ pagPc' = "returned"
                    /\ collected' = [outcome |-> "returned",
                                     results |-> yielded \o page_data,
                                     get_raised |-> get_raised]
                    /\ UNCHANGED page
               ELSE /\ pagPc' = "collect"
                    /\ page' = page + 1
                    /\ UNCHANGED collected
    /\ UNCHANGED <<pagRemote, pagParam, continue_pagination_on_partial_page, listCall,
                   pagOp, requestLog, pageFault>>
    /\ UNCHANGED notPagErr

PagErrNext ==
    \/ /\ pagPc = "idle"
       /\ \E remote \in Remotes, param \in PerPageParams, cont \in BOOLEAN,
             fault \in PageFaults :
             GetPaginatedResource(remote, param, cont, fault)
    \/ CollectPage

(***************************************************************************)
(* OyezClient.get: the request, inside @limits(calls=1, period=1), inside  *)
(* @backoff.on_exception(expo, (RequestException, RateLimitException),     *)
(* max_tries=5).                                                           *)
(***************************************************************************)
\* backoff.on_exception(..., max_tries=5)
max_tries == 5

\* how session.get and the handling of its response can end (lines 110-122)
HttpOutcomes == {"ok", "404", "connection_error", "timeout", "http_error", "bad_json"}

\* lines 113-135: the exception get raises for an outcome of the request
RaisedBy(outcome) ==
    CASE outcome = "404" -> "OyezResourceNotFoundError"
      [] outcome = "bad_json" -> "OyezApiResponseError"
      [] outcome = "connection_error" -> "OyezApiConnectionError"
      [] outcome = "timeout" -> "OyezApiConnectionError"
      [] outcome = "http_error" -> "OyezApiError"
      [] outcome = "rate_limited" -> "RateLimitException"

\* line 82: the exceptions backoff retries on.  The Oyez* exceptions derive
\* from Exception, not from requests.exceptions.RequestException
BackoffRetries(exception) == exception \in {"RequestException", "RateLimitException"}

\* TrackedOyezClient.get, lines 119-121, and OyezClient.get, lines 106-110:
\* the request is made by self.client.get and self.session.get; no line of
\* either consults self.rate_limiter, so a request enters
\* execute_with_rate_limit this many times
LimiterCallsPerRequest(limiter) == 0

ClientInit ==
    /\ cliPc = "unbuilt"
    /\ rate_limiter = FALSE
    /\ httpCalls = 0
    /\ acquires = 0
    /\ reports = 0
    /\ tries = 0
    /\ attemptLog = << >>
    /\ cliRaised = "none"
    /\ periodUsed = FALSE
    /\ gets = 0

\* TrackedOyezClient.__init__(rate_limiter=...), lines 61-68: the limiter is
\* stored and the OyezClient is built without it
TrackedClientInit(limiter) ==
    /\ cliPc = "unbuilt"
    /\ cliPc' = "idle"
    /\ rate_limiter' = limiter
    /\ UNCHANGED <<tries, attemptLog, cliRaised, periodUsed, gets, httpCalls, acquires,
                   reports>>
    /\ UNCHANGED notClient

\* a caller calls TrackedOyezClient.get(endpoint, params), which calls
\* self.client.get(endpoint, params=params) (line 121)
ClientGet ==
    /\ cliPc \in {"idle", "returned", "raised"}
    /\ gets < MaxGets
    /\ gets' = gets + 1
    /\ cliPc' = "trying"
    /\ tries' = 0
    /\ attemptLog' = << >>
    /\ cliRaised' = "none"
    /\ httpCalls' = 0
    /\ acquires' = 0
    /\ reports' = 0
    /\ UNCHANGED <<periodUsed, rate_limiter>>
    /\ UNCHANGED notClient

\* backoff after an exception e of one try: give up at max_tries or when e
\* is not one it retries on, else wait and try again
AfterException(outcome) ==
    /\ attemptLog' = Append(attemptLog, outcome)
    /\ IF BackoffRetries(RaisedBy(outcome)) /\ tries + 1 < max_tries
       THEN cliPc' = "trying" /\ cliRaised' = "none"
       ELSE cliPc' = "raised" /\ cliRaised' = RaisedBy(outcome)

\* one try of the decorated get: the limiter of @limits, then lines 106-135
ClientTry ==
    /\ cliPc = "trying"
    /\ tries' = tries + 1
    /\ \E elapsed \in BOOLEAN :
          IF periodUsed /\ ~elapsed
          THEN \* @limits: a second call within the period
               /\ AfterException("rate_limited")
               /\ UNCHANGED <<periodUsed, httpCalls, acquires, reports>>
          ELSE /\ periodUsed' = TRUE
               \* line 110: self.session.get(url, ...)
               /\ httpCalls' = httpCalls + 1
               /\ acquires' = acquires + LimiterCallsPerRequest(rate_limiter)
               /\ reports' = reports + LimiterCallsPerRequest(rate_limiter)
               /\ \E outcome \in HttpOutcomes :
                     IF outcome = "ok"
                     THEN /\ cliPc' = "returned"
                          /\ attemptLog' = Append(attemptLog, "ok")
                          /\ UNCHANGED cliRaised
                     ELSE AfterException(outcome)
    /\ UNCHANGED <<gets, rate_limiter>>
    /\ UNCHANGED notClient

ClientNext ==
    \/ \E limiter \in BOOLEAN : TrackedClientInit(limiter)
    \/ ClientGet
    \/ ClientTry

(***************************************************************************)
(* AdaptiveRateLimiter.execute_with_rate_limit.  Delays are seconds in the *)
(* source; here they are counted in sixteenths of a second, so that the   *)
(* waits min_delay * 1.5^k are exact.  A product that is not a whole       *)
(* number of sixteenths is rounded away from the delay it was computed     *)
(* from (up for the factor 1.5, down for 0.95 and 0.855), as a float       *)
(* product differs from its operand; half a delay is rounded up, so that   *)
(* it stays positive.                                                      *)
(***************************************************************************)
\* The limiter is built as examples/pagination_demo.py builds it:
\* AdaptiveRateLimiter(min_delay=0.5, max_delay=5.0, backoff_factor=1.5,
\* jitter=0.25), the other parameters at their defaults (initial_delay=1.0,
\* recovery_factor=0.95).
initial_delay == 16
max_delay == 80
min_delay == 8

Max(a, b) == IF a >= b THEN a ELSE b
Min(a, b) == IF a <= b THEN a ELSE b

\* the parameters the demo's limiter is built with
DemoParams ==
    [max_delay |-> max_delay, backoff_factor |-> <<3, 2>>,
     max_retries |-> rl_max_retries]
\* AdaptiveRateLimiter() with no arguments, lines 30-36: initial_delay=1.0,
\* max_delay=60.0, min_delay=0.5, backoff_factor=2.0, max_retries=15
DefaultParams ==
    [max_delay |-> 960, backoff_factor |-> <<2, 1>>, max_retries |-> 15]

\* (variant: the backed-off delay is not clamped)
ClampToMax_Unclamped(d) == d
\* lines 152-154: min(self.max_delay, ...)
ClampToMax(d) == Min(limiter_params.max_delay, d)

\* current_delay * backoff_factor, backoff_factor = 1.5 or 2.0
TimesBackoff(d) ==
    (d * limiter_params.backoff_factor[1] + limiter_params.backoff_factor[2] - 1)
        \div limiter_params.backoff_factor[2]
\* current_delay * recovery_factor, recovery_factor = 0.95
TimesRecovery(d) == (d * 95) \div 100
\* current_delay * (recovery_factor * 0.9)
TimesFastRecovery(d) == (d * 855) \div 1000
\* global_delay_floor * 0.95, * 1.5 and current_delay * 0.5
TimesFloorDecay(d) == (d * 95) \div 100
TimesFloorGrowth(d) == (d * 3) \div 2
Halved(d) == (d + 1) \div 2

\* line 174: self.min_delay * (1.5 ** (retries - 1))
WaitTime_Doubling(r) == min_delay * 2^(r - 1)
WaitTime(r) == (min_delay * 3^(r - 1)) \div 2^(r - 1)

\* _apply_jitter with jitter=0.25: delay + uniform(-delay/8, delay/4); the
\* draw is its lowest value, zero or its highest
JitterDraws == {"low", "zero", "high"}
ApplyJitter(delay, draw) ==
    CASE draw = "low" -> delay - (delay \div 8)
      [] draw = "zero" -> delay
      [] draw = "high" -> delay + (delay \div 4)

\* how one invocation of func can end: it returns, it raises an error whose
\* text names a rate limit (lines 145-148), or it raises another error
FuncOutcomes == {"ok", "rate_limit", "other"}

NoWait == [kind |-> "none", retries |-> 0, wait_time |-> 0, slept |-> 0]

RLInit ==
    /\ rlPc = "idle"
    /\ current_delay = initial_delay
    /\ global_delay_floor = min_delay
    /\ consecutive_successes = 0
    /\ consecutive_failures = 0
    /\ retries = 0
    /\ invocations = 0
    /\ lastOutcome = "none"
    /\ lastWait = NoWait
    /\ limiter_params = DemoParams
    /\ default_calls = 0

\* execute_with_rate_limit(func, endpoint_key), lines 98-106
ExecuteWithRateLimit ==
    /\ rlPc \in {"idle", "returned", "raised_error", "raised_max_retries"}
    /\ rlPc' = "running"
    /\ retries' = 0
    /\ invocations' = 0
    /\ lastWait' = NoWait
    /\ UNCHANGED <<current_delay, global_delay_floor, consecutive_successes,
                   consecutive_failures, lastOutcome, limiter_params,
                   default_calls>>
    /\ UNCHANGED notRL

\* lines 113-137: func returned
OnFuncSuccess ==
    /\ consecutive_successes < MaxConsecutive
    /\ consecutive_successes' = consecutive_successes + 1
    /\ consecutive_failures' = 0
    /\ IF consecutive_successes + 1 >= 10
       THEN /\ current_delay' = Max(global_delay_floor, TimesFastRecovery(current_delay))
            /\ global_delay_floor' =
                  IF consecutive_successes + 1 >= 20
                  THEN Max(min_delay, TimesFloorDecay(global_delay_floor))
                  ELSE global_delay_floor
       ELSE /\ current_delay' = Max(global_delay_floor, TimesRecovery(current_delay))
            /\ UNCHANGED global_delay_floor
    /\ rlPc' = "returned"
    /\ UNCHANGED <<retries, lastWait>>

\* lines 139-170: func raised a rate-limit error
OnRateLimit(draw) ==
    LET delay == ClampToMax(TimesBackoff(current_delay)) IN
    /\ consecutive_failures < MaxFailures
    /\ retries' = retries + 1
    /\ consecutive_successes' = 0
    /\ consecutive_failures' = consecutive_failures + 1
    /\ current_delay' = delay
    /\ global_delay_floor' =
          IF consecutive_failures + 1 >= 3
          THEN Min(Halved(delay), TimesFloorGrowth(global_delay_floor))
          ELSE global_delay_floor
    /\ lastWait' = [kind |-> "rate_limit", retries |-> retries + 1,
                    wait_time |-> delay, slept |-> ApplyJitter(delay, draw)]
    \* lines 107 and 189: the loop ends after max_retries + 1 failures and
    \* Exception("Max retries (...) exceeded") is raised
    /\ rlPc' = IF retries + 1 <= limiter_params.max_retries
               THEN "running" ELSE "raised_max_retries"

\* lines 139-142, 172-186: func raised another error
OnOtherError(draw) ==
    /\ consecutive_failures < MaxFailures
    /\ retries' = retries + 1
    /\ consecutive_successes' = 0
    /\ consecutive_failures' = consecutive_failures + 1
    /\ UNCHANGED <<current_delay, global_delay_floor>>
    /\ IF retries + 1 <= limiter_params.max_retries
       THEN /\ lastWait' = [kind |-> "other", retries |-> retries + 1,
                            wait_time |-> WaitTime(retries + 1),
                            slept |-> ApplyJitter(WaitTime(retries + 1), draw)]
            /\ rlPc' = "running"
       ELSE \* lines 183-186: raise, the error of func goes to the caller
            /\ rlPc' = "raised_error"
            /\ UNCHANGED lastWait

\* one pass of the while loop, lines 107-186: func is invoked
InvokeFunc ==
    /\ rlPc = "running"
    /\ invocations' = invocations + 1
    /\ \E outcome \in FuncOutcomes, draw \in JitterDraws :
          /\ lastOutcome' = outcome
          /\ CASE outcome = "ok" -> OnFuncSuccess
               [] outcome = "rate_limit" -> OnRateLimit(draw)
               [] outcome = "other" -> OnOtherError(draw)
    /\ UNCHANGED <<limiter_params, default_calls>>
    /\ UNCHANGED notRL

RLNext ==
    \/ ExecuteWithRateLimit
    \/ InvokeFunc

\* __init__ with every parameter at its default, lines 49-61
NewDefaultLimiter ==
    /\ rlPc = "idle"
    /\ limiter_params = DemoParams
    /\ limiter_params' = DefaultParams
    /\ current_delay' = initial_delay
    /\ global_delay_floor' = min_delay
    /\ consecutive_successes' = 0
    /\ consecutive_failures' = 0
    /\ rlPc' = "built"
    /\ UNCHANGED <<retries, invocations, lastOutcome, lastWait, default_calls>>
    /\ UNCHANGED notRL

\* a call of the default limiter
ExecuteWithDefaultLimiter ==
    /\ limiter_params = DefaultParams
    /\ rlPc \in {"built", "returned", "raised_error", "raised_max_retries"}
    /\ default_calls < MaxDefaultCalls
    /\ default_calls' = default_calls + 1
    /\ rlPc' = "running"
    /\ retries' = 0
    /\ invocations' = 0
    /\ lastWait' = NoWait
    /\ UNCHANGED <<current_delay, global_delay_floor, consecutive_successes,
                   consecutive_failures, lastOutcome, limiter_params>>
    /\ UNCHANGED notRL

RLDefaultNext ==
    \/ NewDefaultLimiter
    \/ ExecuteWithDefaultLimiter
    \/ InvokeFunc


(***************************************************************************)
(* RawDataCache used directly: first by a single caller, each call a step. *)
(***************************************************************************)
CacheCaseIds == {CaseId("2019", "17-1618"), CaseId("2019", "18-280"),
                 CaseId("2020", "19-1")}
CacheCaseData == {"rev0"}
CacheAudioIds == {"audio1", "audio2"}
CacheAudioBytes == {"bytes0", "bytes1"}
\* store_audio_data(..., media_type="unknown"): the default, and "mp3"
MediaTypes == {"unknown", "mp3"}
\* the case an audio file is stored for: none, or the first case
CacheOwners == {None, CaseId("2019", "17-1618")}
CacheListNames == {"term_2019"}
CacheLists == {<<CaseId("2019", "17-1618")>>}

\* _create_cache_structure, lines 54-61
Subdirectories == {"cases", "audio", "metadata"}

\* the two threads that call the cache concurrently
CacheCallers == {1, 2}

NothingStored == [cases |-> EmptyMap, audio_files |-> EmptyMap, case_lists |-> EmptyMap]

CacheCallInit ==
    \* __init__: the directories are made, _load_or_create_index saves the
    \* new index (lines 81-94)
    /\ index_doc = JsonDump(EmptyIndex)
    /\ dirs = Subdirectories
    /\ stored = NothingStored
    /\ cacheOp = "none"
    /\ cPc = [t \in CacheCallers |-> "idle"]
    /\ cArg = [t \in CacheCallers |-> [op |-> "none", overlapped |-> FALSE]]
    /\ cacheLock = NoThread
    /\ cacheCalls = 0

\* write_json / write_bytes: os.makedirs(parent), then the file is written
WriteFile(fs, path, content) == Put(fs, path, content)
Parent(path) == path[1]

\* store_case_data(case_id, case_data), lines 161-179
StoreCaseData(case_id, case_data) ==
    /\ files' = WriteFile(files, GetCasePath(case_id), JsonDump(case_data))
    /\ dirs' = dirs \cup {Parent(GetCasePath(case_id))}
    /\ cache_index' = StoreCaseIndex(cache_index, case_id)
    /\ index_doc' = JsonDump(StoreCaseIndex(cache_index, case_id))
    /\ stored' = [stored EXCEPT !.cases = Put(@, case_id, case_data)]
    /\ cacheOp' = "store_case_data"
    /\ UNCHANGED <<cPc, cArg, cacheLock, cacheCalls>>
    /\ UNCHANGED notCache

\* store_audio_data(audio_id, audio_data, case_id, media_type), lines 239-262
StoreAudioData(audio_id, audio_data, case_id, media_type) ==
    /\ files' = WriteFile(files, GetAudioPath(audio_id, media_type), audio_data)
    /\ dirs' = dirs \cup {Parent(GetAudioPath(audio_id, media_type))}
    /\ cache_index' = StoreAudioIndex(cache_index, audio_id, case_id, media_type)
    /\ index_doc' = JsonDump(StoreAudioIndex(cache_index, audio_id, case_id, media_type))
    /\ stored' = [stored EXCEPT !.audio_files = Put(@, audio_id, audio_data)]
    /\ cacheOp' = "store_audio_data"
    /\ UNCHANGED <<cPc, cArg, cacheLock, cacheCalls>>
    /\ UNCHANGED notCache

\* store_case_list(list_name, case_list), lines 277-295
StoreCaseList(list_name, case_list) ==
    /\ files' = WriteFile(files, GetListPath(list_name), JsonDump(case_list))
    /\ dirs' = dirs \cup {Parent(GetListPath(list_name))}
    /\ cache_index' = StoreListIndex(cache_index, list_name, case_list)
    /\ index_doc' = JsonDump(StoreListIndex(cache_index, list_name, case_list))
    /\ stored' = [stored EXCEPT !.case_lists = Put(@, list_name, case_list)]
    /\ cacheOp' = "store_case_list"
    /\ UNCHANGED <<cPc, cArg, cacheLock, cacheCalls>>
    /\ UNCHANGED notCache

\* clear_cache, lines 424-434: list_files(dir) is every file directly in
\* dir, and each is unlinked
UnlinkFiles_JsonOnly(fs, dir) ==
    [p \in {q \in DOMAIN fs : ~(q[1] = dir /\ q[3] = "json")} |-> fs[p]]
UnlinkFiles(fs, dir) == [p \in {q \in DOMAIN fs : q[1] # dir} |-> fs[p]]

\* clear_cache(), lines 409-436
ClearCache ==
    /\ cache_index' = EmptyIndex
    /\ index_doc' = JsonDump(EmptyIndex)
    /\ files' = UnlinkFiles(UnlinkFiles(UnlinkFiles(files, "cases"), "audio"), "metadata")
    /\ stored' = NothingStored
    /\ cacheOp' = IF files # EmptyMap THEN "clear_cache" ELSE "clear_cache_of_nothing"
    /\ UNCHANGED <<dirs, cPc, cArg, cacheLock, cacheCalls>>
    /\ UNCHANGED notCache

\* get_audio_data, lines 209-218: CacheError when the id is not in the
\* index or the file cannot be read; the path is _get_audio_path(audio_id),
\* whose media_type is left at its default "mp3" (line 214)
GetAudioDataPath(audio_id) == GetAudioPath(audio_id, "mp3")
GetAudioDataRaises(audio_id) ==
    ~AudioExists(audio_id) \/ GetAudioDataPath(audio_id) \notin DOMAIN files
GetAudioData(audio_id) == files[GetAudioDataPath(audio_id)]

\* get_case_data, lines 141-148, and get_case_list, lines 311-323
GetCaseDataRaises(case_id) ==
    ~CaseExists(case_id) \/ GetCasePath(case_id) \notin DOMAIN files
GetCaseListRaises(list_name) ==
    \/ ~CaseListExists(list_name)
    \/ cache_index.case_lists[list_name].path \notin DOMAIN files

\* get_cache_stats, lines 392-398
GetCacheStats_Files ==
    [case_count |-> Cardinality({p \in DOMAIN files : p[1] = "cases"}),
     audio_count |-> Cardinality({p \in DOMAIN files : p[1] = "audio"}),
     case_list_count |-> Cardinality({p \in DOMAIN files : p[1] = "metadata"})]
GetCacheStats ==
    [case_count |-> Cardinality(DOMAIN cache_index.cases),
     audio_count |-> Cardinality(DOMAIN cache_index.audio_files),
     case_list_count |-> Cardinality(DOMAIN cache_index.case_lists)]

CacheNext ==
    \/ \E case_id \in CacheCaseIds, case_data \in CacheCaseData :
          StoreCaseData(case_id, case_data)
    \/ \E audio_id \in CacheAudioIds, audio_data \in CacheAudioBytes,
          case_id \in CacheOwners, media_type \in MediaTypes :
          StoreAudioData(audio_id, audio_data, case_id, media_type)
    \/ \E list_name \in CacheListNames, case_list \in CacheLists :
          StoreCaseList(list_name, case_list)
    \/ ClearCache


(***************************************************************************)
(* RawDataCache under concurrent callers.  A store call writes its blob,   *)
(* then takes self.lock, assigns the index entry and saves the index       *)
(* (json.dump of the index, then the file is written), and releases the    *)
(* lock as it returns.  clear_cache replaces and saves the index under the *)
(* lock and unlinks the files of the three directories after releasing it. *)
(***************************************************************************)
\* the calls the concurrent callers make: what is stored under a key does
\* not matter to the index, so each key comes with one content
StoreCalls ==
    [op : {"store_case_data"}, key : CacheCaseIds, data : CacheCaseData,
     case_id : {None}, media_type : {None}]
    \cup [op : {"store_audio_data"}, key : CacheAudioIds, data : {"bytes0"},
          case_id : {CaseId("2019", "17-1618")}, media_type : {"mp3"}]
    \cup [op : {"store_case_list"}, key : CacheListNames, data : CacheLists,
          case_id : {None}, media_type : {None}]

\* the blob a store call writes: its path and its content
BlobPath(call) ==
    CASE call.op = "store_case_data" -> GetCasePath(call.key)
      [] call.op = "store_audio_data" -> GetAudioPath(call.key, call.media_type)
      [] call.op = "store_case_list" -> GetListPath(call.key)
BlobContent(call) ==
    IF call.op = "store_audio_data" THEN call.data ELSE JsonDump(call.data)

\* the index after the assignment of the call's entry
IndexAfter(idx, call) ==
    CASE call.op = "store_case_data" -> StoreCaseIndex(idx, call.key)
      [] call.op = "store_audio_data" ->
            StoreAudioIndex(idx, call.key, call.case_id, call.media_type)
      [] call.op = "store_case_list" -> StoreListIndex(idx, call.key, call.data)

IndexKind(call) ==
    CASE call.op = "store_case_data" -> "cases"
      [] call.op = "store_audio_data" -> "audio_files"
      [] call.op = "store_case_list" -> "case_lists"

\* with self.lock, an RLock: free, or already held by the caller
CanAcquire_Always(t) == TRUE
CanAcquire(t) == cacheLock \in {NoThread, t}

OthersInCall(t) == \E u \in CacheCallers \ {t} : cPc[u] # "idle"

\* store_*: the blob is written before the lock is taken (lines 161-166,
\* 239-245, 277-283)
WriteBlob(t, call) ==
    /\ cPc[t] = "idle"
    /\ cacheCalls < MaxCacheCalls
    /\ cacheCalls' = cacheCalls + 1
    /\ files' = WriteFile(files, BlobPath(call), BlobContent(call))
    /\ dirs' = dirs \cup {Parent(BlobPath(call))}
    /\ cArg' = [cArg EXCEPT ![t] =
                  [op |-> call.op, call |-> call, overlapped |-> OthersInCall(t)]]
    /\ cPc' = [cPc EXCEPT ![t] = "blob_written"]
    /\ UNCHANGED <<cache_index, index_doc, stored, cacheOp, cacheLock>>
    /\ UNCHANGED notCache

\* store_*: with self.lock, the index entry is assigned (lines 169-174,
\* 247-257, 285-290)
UpdateIndex(t) ==
    /\ cPc[t] = "blob_written"
    /\ CanAcquire(t)
    /\ cacheLock' = t
    /\ cache_index' = IndexAfter(cache_index, cArg[t].call)
    /\ cPc' = [cPc EXCEPT ![t] = "index_assigned"]
    /\ UNCHANGED <<files, index_doc, dirs, stored, cacheOp, cArg, cacheCalls>>
    /\ UNCHANGED notCache

\* clear_cache: with self.lock, a fresh index replaces the index (lines
\* 409-420)
ResetIndex(t) ==
    /\ cPc[t] = "idle"
    /\ cacheCalls < MaxCacheCalls
    /\ cacheCalls' = cacheCalls + 1
    /\ CanAcquire(t)
    /\ cacheLock' = t
    /\ cache_index' = EmptyIndex
    /\ stored' = NothingStored
    /\ cArg' = [cArg EXCEPT ![t] =
                  [op |-> "clear_cache", overlapped |-> OthersInCall(t)]]
    /\ cPc' = [cPc EXCEPT ![t] = "index_assigned"]
    /\ UNCHANGED <<files, index_doc, dirs, cacheOp>>
    /\ UNCHANGED notCache

\* _save_index, lines 106-110, first half: json.dump serialises the index
SerializeIndex(t) ==
    /\ cPc[t] = "index_assigned"
    /\ cArg' = [cArg EXCEPT ![t] =
                  [x \in DOMAIN @ \cup {"doc"} |->
                      IF x = "doc" THEN JsonDump(cache_index) ELSE @[x]]]
    /\ cPc' = [cPc EXCEPT ![t] = "serialized"]
    /\ UNCHANGED <<cache_index, files, index_doc, dirs, stored, cacheOp, cacheLock,
                   cacheCalls>>
    /\ UNCHANGED notCache

\* _save_index, second half: the document reaches cache_index.json; the
\* lock is released; a store call returns, clear_cache goes on to unlink
SaveIndex(t) ==
    /\ cPc[t] = "serialized"
    /\ index_doc' = cArg[t].doc
    /\ cacheLock' = NoThread
    /\ IF cArg[t].op = "clear_cache"
       THEN /\ cPc' = [cPc EXCEPT ![t] = "unlink_cases"]
            /\ UNCHANGED stored
       ELSE /\ cPc' = [cPc EXCEPT ![t] = "idle"]
            /\ stored' = [stored EXCEPT ![IndexKind(cArg[t].call)] =
                             Put(@, cArg[t].call.key, cArg[t].call.data)]
    /\ UNCHANGED <<cache_index, files, dirs, cacheOp, cArg, cacheCalls>>
    /\ UNCHANGED notCache

\* clear_cache, lines 424-434: the files of cases/, then of audio/, then of
\* metadata/ are listed and unlinked, outside the lock
Unlink(t) ==
    /\ cPc[t] \in {"unlink_cases", "unlink_audio", "unlink_metadata"}
    /\ files' = UnlinkFiles(files,
                    CASE cPc[t] = "unlink_cases" -> "cases"
                      [] cPc[t] = "unlink_audio" -> "audio"
                      [] cPc[t] = "unlink_metadata" -> "metadata")
    /\ cPc' = [cPc EXCEPT ![t] =
                  CASE cPc[t] = "unlink_cases" -> "unlink_audio"
                    [] cPc[t] = "unlink_audio" -> "unlink_metadata"
                    [] cPc[t] = "unlink_metadata" -> "idle"]
    /\ UNCHANGED <<cache_index, index_doc, dirs, stored, cacheOp, cArg, cacheLock,
                   cacheCalls>>
    /\ UNCHANGED notCache

CacheThreadsNext ==
    \/ \E t \in CacheCallers, call \in StoreCalls : WriteBlob(t, call)
    \/ \E t \in CacheCallers : UpdateIndex(t)
    \/ \E t \in CacheCallers : ResetIndex(t)
    \/ \E t \in CacheCallers : SerializeIndex(t)
    \/ \E t \in CacheCallers : SaveIndex(t)
    \/ \E t \in CacheCallers : Unlink(t)

(***************************************************************************)
(* DownloadService's shared counters and its ProgressMonitor.  The main    *)
(* thread runs download_term, download_multiple_terms or                   *)
(* download_all_cases and collects the workers' results; the monitor       *)
(* thread polls _get_current_stats.  A worker call is seen here through    *)
(* its future only.                                                        *)
(***************************************************************************)
Entries == {"download_term", "download_multiple_terms", "download_all_cases"}

\* what scrape_term / scrape_all_cases gives for a term: it raises, or it
\* returns that many cases
ListingFails == [ok |-> FALSE, cases |-> 0]
Listings == {ListingFails} \cup { [ok |-> TRUE, cases |-> n] : n \in 0 .. MaxTermCases }
TermLists == UNION { [1 .. n -> Listings] : n \in 1 .. MaxTerms }

\* future.result(): _process_case returns (success, audio_count), or raises
\* at line 165 for a listing method that is no dict
FutureResults ==
    { [raised |-> FALSE, success |-> TRUE, audio_count |-> 0],
      [raised |-> FALSE, success |-> TRUE, audio_count |-> 1],
      [raised |-> FALSE, success |-> FALSE, audio_count |-> 0],
      [raised |-> TRUE, success |-> FALSE, audio_count |-> 0] }

\* lines 71-79
StatsInit ==
    /\ stats = [items_processed |-> 0, audio_files_downloaded |-> 0, errors |-> 0]
    /\ statsLock = "free"
    /\ accessLog = {}
    /\ method = None
    /\ terms = << >>
    /\ mainPc = "idle"
    /\ termQueue = << >>
    /\ listing = ListingFails
    /\ pending = 0
    /\ raising = FALSE
    /\ progress_monitor = None
    /\ monPc = "none"
    /\ stop_event = FALSE
    /\ lastRead = "none"
    /\ monitorStarts = 0
    /\ monitorStops = 0
    /\ startCalls = 0
    /\ stopCalls = 0
    /\ failedTerms = 0
    /\ caseErrors = 0
    /\ attempted = 0
    /\ retryRan = FALSE
    /\ audioSum = 0
    /\ runOutcome = "none"

\* one read or update of the counters: who, at which line, lock held or not
Access(by, line, locked) == [by |-> by, line |-> line, locked |-> locked]

\* _start_progress_monitoring, lines 122-138, with ProgressMonitor.start
\* (progress.py lines 78-106): a monitor is created and its thread started
\* unless one exists; start reads the stats once through the callback
StartProgressMonitoring ==
    /\ startCalls' = startCalls + 1
    /\ IF progress_monitor = None
       THEN /\ progress_monitor' = "ProgressMonitor"
            /\ monitorStarts' = monitorStarts + 1
            /\ monPc' = "first_read"
            /\ stop_event' = FALSE
            /\ lastRead' = "none"
            /\ accessLog' = accessLog \cup {Access("main", 109, TRUE)}
       ELSE UNCHANGED <<progress_monitor, monitorStarts, monPc, stop_event, lastRead,
                        accessLog>>
    /\ UNCHANGED monitorStops

\* a run starts: one of the three public methods is called
StartRun(e, ts) ==
    /\ mainPc = "idle"
    /\ e = "download_multiple_terms" \/ Len(ts) = 1
    /\ method' = e
    /\ terms' = ts
    /\ IF e = "download_multiple_terms"
       THEN \* line 303
            /\ StartProgressMonitoring
            /\ mainPc' = "multi_loop"
            /\ termQueue' = ts
            /\ UNCHANGED listing
       ELSE /\ mainPc' = "term_start"
            /\ termQueue' = << >>
            /\ listing' = ts[1]
            /\ UNCHANGED <<monVars, startCalls, accessLog>>
    /\ UNCHANGED <<stats, statsLock, pending, raising>>
    /\ UNCHANGED <<stopCalls, failedTerms, caseErrors, attempted, retryRan,
                   runOutcome, audioSum>>
    /\ UNCHANGED notStats

\* lines 308-310: the next term of the loop, or the loop's end
MultiLoop ==
    /\ mainPc = "multi_loop"
    /\ IF termQueue # << >>
       THEN /\ listing' = Head(termQueue)
            /\ termQueue' = Tail(termQueue)
            /\ mainPc' = "term_start"
       ELSE /\ mainPc' = "retry"
            /\ UNCHANGED <<listing, termQueue>>
    /\ UNCHANGED <<stats, statsLock, accessLog, method, terms, pending, raising>>
    /\ UNCHANGED <<monVars, histVars>>
    /\ UNCHANGED notStats

\* line 229 (download_term), line 353 (download_all_cases)
TermStart ==
    /\ mainPc = "term_start"
    /\ StartProgressMonitoring
    /\ attempted' = attempted + 1
    /\ raising' = FALSE
    /\ mainPc' = "term_listing"
    /\ UNCHANGED <<stats, statsLock, method, terms, termQueue, listing, pending>>
    /\ UNCHANGED <<stopCalls, failedTerms, caseErrors, retryRan,
                   runOutcome, audioSum>>
    /\ UNCHANGED notStats

\* (variant: the handler logs and returns)
Reraises_Swallowed(e) == FALSE
\* line 283: `raise`; download_all_cases has no handler at all
Reraises(e) == TRUE

\* lines 234-244 (download_term), 358-376 (download_all_cases): the listing
\* is fetched and every case submitted; a listing that cannot be fetched
\* raises into the handler of download_term, or out of download_all_cases
TermListing ==
    /\ mainPc = "term_listing"
    /\ IF listing.ok
       THEN /\ pending' = listing.cases
            /\ mainPc' = "collect"
            /\ UNCHANGED raising
       ELSE /\ mainPc' = IF method = "download_all_cases" THEN "finally" ELSE "except"
            /\ raising' = (method = "download_all_cases" /\ Reraises(method))
            /\ UNCHANGED pending
    /\ UNCHANGED <<stats, statsLock, accessLog, method, terms, termQueue, listing>>
    /\ UNCHANGED <<monVars, histVars>>
    /\ UNCHANGED notStats

\* (variant: a failed item is not counted)
CountResult_SuccessOnly(st, r) ==
    [items_processed |-> st.items_processed + (IF r.success THEN 1 ELSE 0),
     audio_files_downloaded |-> st.audio_files_downloaded + r.audio_count,
     errors |-> st.errors]
\* lines 255-260, 383-388: `with self.stats["lock"]` around a result
CountResult(st, r) ==
    [items_processed |-> st.items_processed + (IF r.success THEN 1 ELSE 0),
     audio_files_downloaded |-> st.audio_files_downloaded + r.audio_count,
     errors |-> st.errors + (IF r.success THEN 0 ELSE 1)]

\* an errors += 1
CountError(st) == [st EXCEPT !.errors = @ + 1]

\* lines 248-264 (378-392): one turn of the as_completed loop
Collect(r) ==
    /\ mainPc = "collect"
    /\ pending > 0
    /\ statsLock = "free"
    /\ pending' = pending - 1
    /\ IF r.raised
       THEN \* lines 261-264
            /\ stats' = CountError(stats)
            /\ accessLog' = accessLog \cup {Access("main", 263, TRUE)}
       ELSE /\ stats' = CountResult(stats, r)
            /\ accessLog' = accessLog \cup {Access("main", 255, TRUE)}
    /\ caseErrors' = IF r.success THEN caseErrors ELSE caseErrors + 1
    /\ audioSum' = audioSum + r.audio_count
    /\ UNCHANGED <<statsLock, method, terms, mainPc, termQueue, listing, raising>>
    /\ UNCHANGED <<startCalls, stopCalls, failedTerms, attempted, retryRan, runOutcome>>
    /\ UNCHANGED monVars
    /\ UNCHANGED notStats

\* the loop is over: download_term returns its summary (lines 266-279),
\* download_all_cases goes on to the retry phase (line 396)
Collected ==
    /\ mainPc = "collect"
    /\ pending = 0
    /\ mainPc' = IF method = "download_all_cases" THEN "retry" ELSE "finally"
    /\ UNCHANGED <<stats, statsLock, accessLog, method, terms, termQueue, listing,
                   pending, raising>>
    /\ UNCHANGED <<monVars, histVars>>
    /\ UNCHANGED notStats

\* download_term, lines 280-283: logs, counts the error without taking the
\* lock, and raises again
TermExcept ==
    /\ mainPc = "except"
    /\ stats' = CountError(stats)
    /\ accessLog' = accessLog \cup {Access("main", 282, FALSE)}
    /\ raising' = Reraises(method)
    /\ mainPc' = "finally"
    /\ UNCHANGED <<statsLock, method, terms, termQueue, listing, pending>>
    /\ UNCHANGED <<monVars, histVars>>
    /\ UNCHANGED notStats

\* lines 317-334, 396-413: the retry phase (its rounds are not followed
\* here), then final_stats = self._get_current_stats()
RetryAndFinalStats ==
    /\ mainPc = "retry"
    /\ statsLock = "free"
    /\ retryRan' = TRUE
    /\ accessLog' = accessLog \cup {Access("main", 109, TRUE)}
    /\ mainPc' = "finally"
    /\ UNCHANGED <<stats, statsLock, method, terms, termQueue, listing, pending, raising>>
    /\ UNCHANGED <<startCalls, stopCalls, failedTerms, caseErrors, attempted,
                   runOutcome, audioSum>>
    /\ UNCHANGED monVars
    /\ UNCHANGED notStats

\* where the main thread is once a `finally` block is through
AfterFinally ==
    IF method = "download_multiple_terms" /\ mainPc \in {"finally", "join"} /\ ~retryRan
    THEN "term_return" ELSE "done"

\* `finally: self._stop_progress_monitoring()` (lines 284-285, 336-338,
\* 415-417) up to ProgressMonitor.stop's stop_event.set() (progress.py 115-116)
StopMonitoring ==
    /\ mainPc = "finally"
    /\ stopCalls' = stopCalls + 1
    /\ IF progress_monitor # None
       THEN /\ stop_event' = TRUE
            /\ mainPc' = "join"
            /\ UNCHANGED runOutcome
       ELSE /\ mainPc' = AfterFinally
            /\ runOutcome' = IF AfterFinally = "done"
                             THEN (IF raising THEN "raised" ELSE "returned")
                             ELSE runOutcome
            /\ UNCHANGED stop_event
    /\ UNCHANGED <<stats, statsLock, accessLog, method, terms, termQueue, listing,
                   pending, raising>>
    /\ UNCHANGED <<progress_monitor, monPc, lastRead, monitorStarts, monitorStops>>
    /\ UNCHANGED <<startCalls, failedTerms, caseErrors, attempted, retryRan,
                   audioSum>>
    /\ UNCHANGED notStats

\* ProgressMonitor.stop, lines 117-122, and line 144 of the service:
\* the thread is joined and the monitor dropped; the method's `finally` ends
Join ==
    /\ mainPc = "join"
    /\ monPc = "ended"
    /\ progress_monitor' = None
    /\ monitorStops' = monitorStops + 1
    /\ mainPc' = AfterFinally
    /\ runOutcome' = IF AfterFinally = "done"
                     THEN (IF raising THEN "raised" ELSE "returned")
                     ELSE runOutcome
    /\ UNCHANGED <<stats, statsLock, accessLog, method, terms, termQueue, listing,
                   pending, raising>>
    /\ UNCHANGED <<monPc, stop_event, lastRead, monitorStarts>>
    /\ UNCHANGED <<startCalls, stopCalls, failedTerms, caseErrors, attempted, retryRan,
                   audioSum>>
    /\ UNCHANGED notStats

\* download_multiple_terms, lines 309-314: download_term has returned, or
\* raised into the handler, which counts an error under the lock
TermReturn ==
    /\ mainPc = "term_return"
    /\ raising => statsLock = "free"
    /\ IF raising
       THEN /\ stats' = CountError(stats)
            /\ accessLog' = accessLog \cup {Access("main", 313, TRUE)}
            /\ failedTerms' = failedTerms + 1
       ELSE UNCHANGED <<stats, accessLog, failedTerms>>
    /\ raising' = FALSE
    /\ mainPc' = "multi_loop"
    /\ UNCHANGED <<statsLock, method, terms, termQueue, listing, pending>>
    /\ UNCHANGED <<startCalls, stopCalls, caseErrors, attempted, retryRan,
                   runOutcome, audioSum>>
    /\ UNCHANGED monVars
    /\ UNCHANGED notStats

\* what a call of stats_callback can do
CallbackOutcomes == {"returns", "raises"}

\* _monitor_progress, lines 133-135 and 201-203: the thread's first read.
\* _get_current_stats takes the lock for the counters (lines 109-112).
MonitorFirstRead(outcome) ==
    /\ monPc = "first_read"
    /\ IF outcome = "raises"
       THEN \* the outer handler logs; the thread function returns
            /\ monPc' = "ended"
            /\ lastRead' = "raised"
            /\ UNCHANGED <<statsLock, accessLog>>
       ELSE /\ statsLock = "free"
            /\ statsLock' = "monitor"
            /\ accessLog' = accessLog \cup {Access("monitor", 109, TRUE)}
            /\ monPc' = "reading"
            /\ UNCHANGED lastRead
    /\ UNCHANGED <<stats, method, terms, mainVars, histVars>>
    /\ UNCHANGED <<progress_monitor, stop_event, monitorStarts, monitorStops>>
    /\ UNCHANGED notStats

\* lines 109-112: the `with` block of _get_current_stats ends; the rates are
\* computed from the copy (progress.py lines 155-195)
MonitorRelease ==
    /\ monPc = "reading"
    /\ statsLock' = "free"
    /\ lastRead' = "returned"
    /\ monPc' = "waiting"
    /\ UNCHANGED <<stats, accessLog, method, terms, mainVars, histVars>>
    /\ UNCHANGED <<progress_monitor, stop_event, monitorStarts, monitorStops>>
    /\ UNCHANGED notStats

\* lines 138-143: the loop's test and the interval's sleep
MonitorWait ==
    /\ monPc = "waiting"
    /\ monPc' = IF stop_event THEN "ended" ELSE "polling"
    /\ UNCHANGED <<stats, statsLock, accessLog, method, terms, mainVars, histVars>>
    /\ UNCHANGED <<progress_monitor, stop_event, lastRead, monitorStarts, monitorStops>>
    /\ UNCHANGED notStats

\* lines 150-152 and 197-199: a poll; a raising callback is logged by the
\* inner handler and the loop goes on
MonitorPoll(outcome) ==
    /\ monPc = "polling"
    /\ IF outcome = "raises"
       THEN /\ monPc' = "waiting"
            /\ lastRead' = "raised"
            /\ UNCHANGED <<statsLock, accessLog>>
       ELSE /\ statsLock = "free"
            /\ statsLock' = "monitor"
            /\ accessLog' = accessLog \cup {Access("monitor", 109, TRUE)}
            /\ monPc' = "reading"
            /\ UNCHANGED lastRead
    /\ UNCHANGED <<stats, method, terms, mainVars, histVars>>
    /\ UNCHANGED <<progress_monitor, stop_event, monitorStarts, monitorStops>>
    /\ UNCHANGED notStats

StatsNext ==
    \/ \E e \in Entries, ts \in TermLists : StartRun(e, ts)
    \/ MultiLoop
    \/ TermStart
    \/ TermListing
    \/ \E r \in FutureResults : Collect(r)
    \/ Collected
    \/ TermExcept
    \/ RetryAndFinalStats
    \/ StopMonitoring
    \/ Join
    \/ TermReturn
    \/ \E outcome \in CallbackOutcomes : MonitorFirstRead(outcome)
    \/ MonitorRelease
    \/ MonitorWait
    \/ \E outcome \in CallbackOutcomes : MonitorPoll(outcome)

(***************************************************************************)
(* DownloadService.download_all_cases, main pass, over a case list in      *)
(* which a case ID can occur more than once.  The pool runs at most        *)
(* NumThreads of the submitted _process_case calls at a time and starts    *)
(* them in the order of submission.  Every case has a term and a docket.   *)
(***************************************************************************)
DupCases == { [term |-> "2019", docket_number |-> d] : d \in {"17-1618", "18-280"} }
DupIds == { ItemId(c) : c \in DupCases }
WorkLists == UNION { [1 .. n -> DupCases] : n \in 1 .. MaxWork }

\* what a _process_case call that fetched can return: (success, audio_count)
FetchResults == {<<TRUE, 0>>, <<TRUE, 1>>, <<FALSE, 0>>}

DupInit ==
    /\ work_list = << >>
    /\ processed_cases = {}
    /\ taskPc = << >>
    /\ scrapeCalls = [id \in DupIds |-> 0]
    /\ taskResult = << >>

\* lines 358-376: the list is fetched, processed_cases = set(), and every
\* case is submitted
SubmitAllCases(case_list) ==
    /\ work_list = << >>
    /\ work_list' = case_list
    /\ processed_cases' = {}
    /\ taskPc' = [i \in DOMAIN case_list |-> "queued"]
    /\ taskResult' = [i \in DOMAIN case_list |-> None]
    /\ UNCHANGED scrapeCalls
    /\ UNCHANGED notDup

\* a worker of the pool is free
WorkerFree ==
    Cardinality({ j \in DOMAIN taskPc : taskPc[j] \in {"add", "scrape"} }) < NumThreads

\* line 175: case_id in processed_cases
SeenBefore(i) == ItemId(work_list[i]) \in processed_cases

\* _process_case, lines 164-177: a worker takes the call; the case ID is
\* built and looked up in processed_cases
CheckProcessed(i) ==
    /\ taskPc[i] = "queued"
    /\ \A j \in 1 .. (i - 1) : taskPc[j] # "queued"
    /\ WorkerFree
    /\ IF SeenBefore(i)
       THEN /\ taskPc' = [taskPc EXCEPT ![i] = "returned"]
            /\ taskResult' = [taskResult EXCEPT ![i] = <<TRUE, 0>>]
       ELSE /\ taskPc' = [taskPc EXCEPT ![i] = "add"]
            /\ UNCHANGED taskResult
    /\ UNCHANGED <<work_list, processed_cases, scrapeCalls>>
    /\ UNCHANGED notDup

\* lines 180-181: processed_cases.add(case_id)
AddProcessed(i) ==
    /\ taskPc[i] = "add"
    /\ processed_cases' = processed_cases \cup {ItemId(work_list[i])}
    /\ taskPc' = [taskPc EXCEPT ![i] = "scrape"]
    /\ UNCHANGED <<work_list, scrapeCalls, taskResult>>
    /\ UNCHANGED notDup

\* lines 183-212: scraper.scrape_case(term, docket) is called and the call
\* returns (True, audio_count) or (False, 0)
ScrapeAndReturn(i, r) ==
    /\ taskPc[i] = "scrape"
    /\ scrapeCalls' = [scrapeCalls EXCEPT ![ItemId(work_list[i])] = @ + 1]
    /\ taskPc' = [taskPc EXCEPT ![i] = "returned"]
    /\ taskResult' = [taskResult EXCEPT ![i] = r]
    /\ UNCHANGED <<work_list, processed_cases>>
    /\ UNCHANGED notDup

DupNext ==
    \/ \E case_list \in WorkLists : SubmitAllCases(case_list)
    \/ \E i \in DOMAIN taskPc : CheckProcessed(i)
    \/ \E i \in DOMAIN taskPc : AddProcessed(i)
    \/ \E i \in DOMAIN taskPc, r \in FetchResults : ScrapeAndReturn(i, r)

(***************************************************************************)
(* DownloadTracker.mark_failed and mark_successful called by the worker    *)
(* threads of the pool (_process_case, lines 183-212).  The tracker has no *)
(* lock, so a call is a sequence of steps between which the other threads  *)
(* run: the membership test, the update of the dict, and in _save_tracker  *)
(* the opening of the file, which truncates it and fills the file object's *)
(* buffer, and the close, which writes the buffer out.                     *)
(***************************************************************************)
CtCases == { [term |-> "2019", docket_number |-> d] : d \in {"17-1618", "18-280"} }
CtIds == { ItemId(c) : c \in CtCases }

NoTrackerCall == [op |-> "none"]
EmptyFile == [kind |-> "invalid_json"]

CtInit ==
    /\ tpc = [t \in Threads |-> "idle"]
    /\ tLocal = [t \in Threads |-> NoTrackerCall]
    /\ tBuf = [t \in Threads |-> None]
    /\ entryObj = [id \in CtIds |-> 0]
    /\ callLog = << >>

AttemptsIn(fi, item_id) ==
    IF Tracked(fi, item_id) THEN fi[IndexOf(fi, item_id)].attempts ELSE 0

\* mark_failed, line 114: `if item_id in self.failed_items`; on the tracked
\* branch line 116 reads the entry and its attempts
MarkFailedTest(t, c) ==
    /\ tpc[t] = "idle"
    /\ Len(callLog) < MaxTrackerCalls
    /\ callLog' = Append(callLog, [op |-> "mark_failed", c |-> c])
    /\ IF Tracked(failed_items, ItemId(c))
       THEN /\ tpc' = [tpc EXCEPT ![t] = "increment"]
            /\ tLocal' = [tLocal EXCEPT ![t] =
                             [op |-> "mark_failed", c |-> c,
                              attempts |-> AttemptsIn(failed_items, ItemId(c)),
                              obj |-> entryObj[ItemId(c)]]]
       ELSE /\ tpc' = [tpc EXCEPT ![t] = "insert"]
            /\ tLocal' = [tLocal EXCEPT ![t] = [op |-> "mark_failed", c |-> c]]
    /\ UNCHANGED <<tBuf, entryObj>>
    /\ UNCHANGED trackerVars
    /\ UNCHANGED notTrackerThreads

\* line 116, the store of `... ["attempts"] += 1`: it goes to the entry that
\* was read, which may no longer be the one in the dict
MarkFailedIncrement(t) ==
    LET id == ItemId(tLocal[t].c) IN
    /\ tpc[t] = "increment"
    /\ failed_items' =
          IF Tracked(failed_items, id) /\ entryObj[id] = tLocal[t].obj
          THEN [failed_items EXCEPT ![IndexOf(failed_items, id)].attempts =
                                        tLocal[t].attempts + 1]
          ELSE failed_items
    /\ tpc' = [tpc EXCEPT ![t] = "open"]
    /\ UNCHANGED <<marks, tracker_file, lastSave, saveFailures, trackerOp>>
    /\ UNCHANGED <<tLocal, tBuf, entryObj, callLog>>
    /\ UNCHANGED notTrackerThreads

\* lines 119-123: self.failed_items[item_id] = {...} with attempts 1; a key
\* that has appeared in the meantime keeps its place and gets the new entry
MarkFailedInsert(t) ==
    LET id == ItemId(tLocal[t].c)
        new == [id |-> id, item_data |-> tLocal[t].c, attempts |-> 1] IN
    /\ tpc[t] = "insert"
    /\ failed_items' =
          IF Tracked(failed_items, id)
          THEN [failed_items EXCEPT ![IndexOf(failed_items, id)] = new]
          ELSE Append(failed_items, new)
    /\ entryObj' = [entryObj EXCEPT ![id] = @ + 1]
    /\ tpc' = [tpc EXCEPT ![t] = "open"]
    /\ UNCHANGED <<marks, tracker_file, lastSave, saveFailures, trackerOp>>
    /\ UNCHANGED <<tLocal, tBuf, callLog>>
    /\ UNCHANGED notTrackerThreads

\* mark_successful, line 138: `if item_id in self.failed_items`; the call
\* returns at once when the item is not tracked
MarkSuccessfulTest(t, c) ==
    /\ tpc[t] = "idle"
    /\ Len(callLog) < MaxTrackerCalls
    /\ callLog' = Append(callLog, [op |-> "mark_successful", c |-> c])
    /\ IF Tracked(failed_items, ItemId(c))
       THEN /\ tpc' = [tpc EXCEPT ![t] = "delete"]
            /\ tLocal' = [tLocal EXCEPT ![t] = [op |-> "mark_successful", c |-> c]]
       ELSE UNCHANGED <<tpc, tLocal>>
    /\ UNCHANGED <<tBuf, entryObj>>
    /\ UNCHANGED trackerVars
    /\ UNCHANGED notTrackerThreads

\* line 139: del self.failed_items[item_id]; KeyError leaves the call when
\* another thread has removed the item since the test
MarkSuccessfulDelete(t) ==
    LET id == ItemId(tLocal[t].c) IN
    /\ tpc[t] = "delete"
    /\ failed_items' = MarkSuccessfulItems(failed_items, id)
    /\ tpc' = [tpc EXCEPT ![t] = IF Tracked(failed_items, id) THEN "open" ELSE "idle"]
    /\ UNCHANGED <<marks, tracker_file, lastSave, saveFailures, trackerOp>>
    /\ UNCHANGED <<tLocal, tBuf, entryObj, callLog>>
    /\ UNCHANGED notTrackerThreads

\* _save_tracker, lines 91-96, and write_json, filesystem.py lines 72-73:
\* open(file_path, "w") empties the file and json.dump puts the document,
\* made from failed_items as it is now, into the file object's buffer
SaveOpenAndDump(t) ==
    /\ tpc[t] = "open"
    /\ tracker_file' = EmptyFile
    /\ tBuf' = [tBuf EXCEPT ![t] = TrackerDoc(failed_items)]
    /\ tpc' = [tpc EXCEPT ![t] = "close"]
    /\ UNCHANGED <<failed_items, marks, lastSave, saveFailures, trackerOp>>
    /\ UNCHANGED <<tLocal, entryObj, callLog>>
    /\ UNCHANGED notTrackerThreads

\* filesystem.py line 72, the end of the with block: the buffer is written
\* at the start of the file.  Over a longer document that another thread
\* wrote since the open, the longer one's tail stays behind it.
SaveClose(t) ==
    /\ tpc[t] = "close"
    /\ tracker_file' =
          IF /\ tracker_file.kind = "json"
             /\ Len(tracker_file.failed_items) > Len(tBuf[t].failed_items)
          THEN EmptyFile
          ELSE tBuf[t]
    /\ tBuf' = [tBuf EXCEPT ![t] = None]
    /\ tpc' = [tpc EXCEPT ![t] = "idle"]
    /\ UNCHANGED <<failed_items, marks, lastSave, saveFailures, trackerOp>>
    /\ UNCHANGED <<tLocal, entryObj, callLog>>
    /\ UNCHANGED notTrackerThreads

TrackerThreadsNext ==
    \E t \in Threads :
        \/ \E c \in CtCases : MarkFailedTest(t, c)
        \/ MarkFailedIncrement(t)
        \/ MarkFailedInsert(t)
        \/ \E c \in CtCases : MarkSuccessfulTest(t, c)
        \/ MarkSuccessfulDelete(t)
        \/ SaveOpenAndDump(t)
        \/ SaveClose(t)

\* the calls of callLog made one after the other, in every order: the
\* attempts each order leaves per item (0: not tracked)
ApplyCall(fi, call) ==
    IF call.op = "mark_failed"
    THEN MarkFailedItems(fi, ItemId(call.c), call.c)
    ELSE MarkSuccessfulItems(fi, ItemId(call.c))
AttemptsOf(fi) == [id \in CtIds |-> AttemptsIn(fi, id)]
RECURSIVE SequentialOutcomes(_, _)
SequentialOutcomes(fi, rest) ==
    IF rest = {} THEN {AttemptsOf(fi)}
    ELSE UNION { SequentialOutcomes(ApplyCall(fi, callLog[k]), rest \ {k}) : k \in rest }

Init ==
    /\ CacheInit /\ DLInit /\ TrackerInit /\ ScraperInit /\ SvcInit /\ PagInit
    /\ ClientInit /\ RLInit /\ CacheCallInit /\ StatsInit
    /\ PagErrInit /\ DupInit /\ CtInit

SpecTrackerThreads == Init /\ [][TrackerThreadsNext]_vars

SpecDup == Init /\ [][DupNext]_vars

SpecPagErr == Init /\ [][PagErrNext]_vars

SpecStats == Init /\ [][StatsNext]_vars

SpecCacheThreads == Init /\ [][CacheThreadsNext]_vars

SpecCache == Init /\ [][CacheNext]_vars

SpecRLDefault == Init /\ [][RLDefaultNext]_vars

SpecRL == Init /\ [][RLNext]_vars

SpecClient == Init /\ [][ClientNext]_vars

SpecPag == Init /\ [][PagNext]_vars

\* the pool runs every submitted call and the driver goes on when all returned
SpecInterrupt == Init /\ [][InterruptNext]_vars

SpecSvc == Init /\ [][SvcNext]_vars /\ WF_vars(SvcNext)

SpecScraper == Init /\ [][ScraperNext]_vars

SpecTrackerFile == Init /\ [][TrackerFileNext]_vars

SpecTracker == Init /\ [][TrackerNext]_vars

SpecDL == Init /\ [][DLNext]_vars

(***************************************************************************)
(* Properties of RawDataScraperService (SpecScraper).                      *)
(***************************************************************************)
\* C4: a scrape_case or scrape_term call that finds its key uncached and
\* succeeds made exactly one network call and one cache write and left the
\* key cached; a call (without force_refresh) that finds its key cached
\* makes no network call and no cache write and returns exactly what the
\* previous successful call for that key returned, whatever the remote
\* serves by then.
C4_IdempotentFetch ==
    /\ (lastCall.op # "none" /\ ~lastCall.cached /\ lastCall.outcome = "ok")
          => /\ lastCall.net = 1
             /\ lastCall.writes = 1
             /\ lastCall.key \in (DOMAIN cache_index.cases) \cup (DOMAIN cache_index.case_lists)
    /\ (lastCall.op # "none" /\ lastCall.cached /\ ~lastCall.force)
          => /\ lastCall.outcome = "ok"
             /\ lastCall.net = 0
             /\ lastCall.writes = 0
             /\ lastCall.data = lastCall.prev
    /\ \A k \in ScrapeKeys :
          (k \in (DOMAIN cache_index.cases) \cup (DOMAIN cache_index.case_lists))
              => returned[k] # << >>

\* a second scrape_case of a cached record, after the remote record changed
C4_Witness ==
    /\ lastCall.op = "scrape_case"
    /\ lastCall.cached
    /\ ~lastCall.force
    /\ lastCall.net = 0
    /\ lastCall.data = lastCall.prev
    /\ remoteRev[lastCall.key] > lastCall.data[1].rev

(***************************************************************************)
(* Properties of DownloadTracker (SpecTracker).                            *)
(***************************************************************************)
RetryIds(fi) == { GetFailedItemsForRetry(fi)[k][1] : k \in DOMAIN GetFailedItemsForRetry(fi) }

\* C7: an item marked failed max_retry_attempts + 1 times (or more) in a row
\* is not returned by get_failed_items_for_retry, one marked failed between
\* 1 and max_retry_attempts times is returned, with its payload, and an item
\* whose last call was mark_successful is not in the tracker at all.
C7_RetryBound ==
    \A c \in Cases :
        /\ marks[ItemId(c)] >= max_retry_attempts + 1
              => ItemId(c) \notin RetryIds(failed_items)
        /\ (marks[ItemId(c)] >= 1 /\ marks[ItemId(c)] <= max_retry_attempts)
              => \E k \in DOMAIN GetFailedItemsForRetry(failed_items) :
                    GetFailedItemsForRetry(failed_items)[k] = <<ItemId(c), c>>
        /\ marks[ItemId(c)] = 0 => ~Tracked(failed_items, ItemId(c))

\* an item was marked failed exactly max_retry_attempts + 1 times: it is
\* still tracked and no longer eligible, while another item is eligible
C7_Witness ==
    \E c, d \in Cases :
        /\ marks[ItemId(c)] = max_retry_attempts + 1
        /\ Tracked(failed_items, ItemId(c))
        /\ ItemId(c) \notin RetryIds(failed_items)
        /\ marks[ItemId(d)] = max_retry_attempts
        /\ ItemId(d) \in RetryIds(failed_items)

(***************************************************************************)
(* Properties of AudioDownloader.download_audio_file (SpecDL).             *)
(***************************************************************************)
\* a caller is between the start of its HEAD request and the end of the
\* streamed GET (the response is open until store_audio_data returns)
InFlight(t) == pc[t] \in {"head", "get", "store"}

\* C1: at any time at most one caller is performing the network download of
\* a content id, and it is the caller that registered the id in
\* downloads_in_progress; a caller that found the id registered is never
\* among the callers with a request under way.
C1_OneInFlightPerKey ==
    /\ \A t \in Threads :
          InFlight(t) => /\ Cid(t) \in DOMAIN downloads_in_progress
                         /\ downloads_in_progress[Cid(t)] = t
    /\ \A t1, t2 \in Threads :
          (t1 # t2 /\ InFlight(t1) /\ InFlight(t2)) => Cid(t1) # Cid(t2)

\* a download is under way while a second caller of the same id has found
\* it registered
C1_Witness ==
    \E t1, t2 \in Threads :
        /\ t1 # t2
        /\ InFlight(t1)
        /\ pc[t2] = "waiting"
        /\ Cid(t1) = Cid(t2)

\* C2: when every thread has called download_audio_file for the same url
\* against the cold cache and every call is over, with no request or store
\* having failed, there was exactly one GET and one cache write for the id
\* and every caller returned the id.
C2_ExactlyOneDownload ==
    \A u \in Urls :
        ( /\ \A t \in Threads : arg[t] = u /\ pc[t] = "done"
          /\ netFailures = 0 )
        => /\ netDownloads[GenerateContentId(u)] = 1
           /\ cacheWrites[GenerateContentId(u)] = 1
           /\ \A t \in Threads : ret[t] = GenerateContentId(u)

\* C3: no caller blocks forever: as long as some call has started and not
\* returned, some caller can take a step (the owner can finish and signal,
\* a waiter can return).
C3_NoCallerBlocksForever ==
    (\E t \in Threads : pc[t] \notin {"idle", "done"}) => ENABLED DLNext


(***************************************************************************)
(* Properties of the download service (SpecSvc).                           *)
(***************************************************************************)
\* C5: _process_case reports success (and marks the item successful) only
\* after the record and every audio asset of the item have been fetched, so
\* the record and all its assets are in the cache then; and a call in which
\* a fetch step failed (record, asset metadata or asset download) returns
\* failure and leaves the item recorded in the failure tracker.
C5_SuccessOnlyAfterEveryFetch ==
    \A c \in WorkItems :
        wpc[c] = "returned" =>
            /\ result[c].success =>
                  /\ CaseExists(ItemId(c))
                  /\ ~skip_audio =>
                        \A k \in DOMAIN AudioContent(c) :
                            AudioExists(ScraperGenerateContentId(AudioContent(c)[k]))
            /\ failedStep[c] # "none" =>
                  /\ ~result[c].success
                  /\ Tracked(failed_items, ItemId(c))

\* C6 (as stated): every item whose processing failed, i.e. whose worker
\* returned failure, returned (False, 0) and is recorded in the failure
\* tracker under its item id with its payload.
C6_EveryFailureCaptured ==
    \A c \in WorkItems :
        (wpc[c] = "returned" /\ ~result[c].success) =>
            /\ result[c].audio_count = 0
            /\ \E k \in DOMAIN failed_items :
                  failed_items[k].id = ItemId(c) /\ failed_items[k].item_data = c

\* C6 (amended): an item that has a term and a docket number and whose
\* worker returned failure returned (False, 0) and is recorded in the
\* failure tracker under its id with its payload; an item without a term or
\* docket number returns (False, 0) and is not recorded; and whatever the
\* other items did, every queued item can still be processed and the pool
\* goes on until the run has finished.
C6_FailureWithIdCaptured ==
    /\ \A c \in WorkItems :
          (wpc[c] = "returned" /\ ~result[c].success /\ HasTermAndDocket(c)) =>
              /\ result[c].audio_count = 0
              /\ \E k \in DOMAIN failed_items :
                    failed_items[k].id = ItemId(c) /\ failed_items[k].item_data = c
    /\ \A c \in WorkItems :
          (wpc[c] = "returned" /\ ~HasTermAndDocket(c)) =>
              /\ result[c] = [success |-> FALSE, audio_count |-> 0]
              /\ ~Tracked(failed_items, ItemId(c))
    /\ \A c \in WorkItems : wpc[c] = "queued" => ENABLED ProcessCase(c)
    /\ svcPhase \in {"main", "retry"} => ENABLED SvcNext

\* a case failed and was recorded, the entry without a docket number was
\* turned away, and another case of the same batch went through
C6_Witness ==
    /\ svcPhase = "main"
    /\ wpc[MalformedCase] = "returned"
    /\ \E c1, c2 \in WorkItems :
          /\ wpc[c1] = "returned" /\ ~result[c1].success /\ HasTermAndDocket(c1)
          /\ Tracked(failed_items, ItemId(c1))
          /\ wpc[c2] = "returned" /\ result[c2].success

\* C8: the retry phase runs at most max_retries rounds; the list a round
\* works on is what get_failed_items_for_retry returned when the round began
\* and the round calls _process_case with exactly the cases of that list;
\* the phase ends before max_retries rounds only when nothing is eligible
\* for retry; and the run always finishes.
C8_BoundedRetryRounds ==
    /\ [](/\ retry_round <= max_retries
          /\ svcPhase = "retry" =>
                /\ retry_round >= 1
                /\ retry_items # << >>
                /\ invoked \subseteq { retry_items[k][2] : k \in DOMAIN retry_items }
          /\ (svcPhase = "retry" /\ \A k \in DOMAIN batch : wpc[batch[k]] = "queued") =>
                retry_items = GetFailedItemsForRetry(failed_items)
          /\ (svcPhase = "retry" /\ AllReturned) =>
                invoked = { retry_items[k][2] : k \in DOMAIN retry_items }
          /\ (svcPhase = "finished" /\ retry_round < max_retries) =>
                ~HasFailedItemsForRetry(failed_items))
    /\ <>(svcPhase = "finished")

\* all max_retries rounds ran and a case is still recorded as failed
C8_Witness ==
    /\ svcPhase = "finished"
    /\ retry_round = max_retries
    /\ failed_items # << >>


(***************************************************************************)
(* Properties of pagination (SpecPag).                                     *)
(***************************************************************************)
\* C9: once iter_paginated_resource has ended it has yielded, in page
\* order, exactly the items of the pages up to and including the
\* terminating page, with one fetch per page up to that page; the
\* terminating page is the first empty page or, when the iteration stops on
\* partial pages, the first page shorter than per_page.  For pages of sizes
\* 2,2,2,1,0 and per_page=2 that is 7 items, with 5 fetches when it
\* continues on partial pages and 4 when it stops on them.
C9_YieldsPagesUpToTerminating ==
    pagPc = "done" =>
        LET t == TerminatingPage(pagRemote, RequestedPerPage(pagRemote, pagParam),
                                 continue_pagination_on_partial_page, 0)
            sizes == [p \in 0 .. 4 |-> Len(GetPageResource(pagRemote, p))]
        IN  /\ yielded = PagesUpTo(pagRemote, t)
            /\ fetchCalls = t + 1
            /\ (/\ sizes = [p \in 0 .. 4 |-> IF p < 3 THEN 2 ELSE 4 - p]
                /\ pagParam = [kind |-> "int", value |-> 2]) =>
                  /\ Len(yielded) = 7
                  /\ fetchCalls = IF continue_pagination_on_partial_page THEN 5 ELSE 4

\* the 2,2,2,1,0 resource read with per_page=2, stopping on the partial page
C9_Witness ==
    /\ pagPc = "done"
    /\ [p \in 0 .. 4 |-> Len(GetPageResource(pagRemote, p))]
          = [p \in 0 .. 4 |-> IF p < 3 THEN 2 ELSE 4 - p]
    /\ pagParam = [kind |-> "int", value |-> 2]
    /\ ~continue_pagination_on_partial_page
    /\ Len(yielded) = 7
    /\ fetchCalls = 4

\* C10: with auto_paginate true, get_all_cases and get_cases_by_term return
\* every case of every page the remote serves, up to the first empty or
\* short page, however many pages there are and with or without a term
\* filter.
C10_FullyMaterialized ==
    (listCall.auto_paginate /\ listCall.outcome = "ok") =>
        listCall.cases = FullCollection(listCall.remote, 0)


\* C11: every page request that a list operation called with auto_paginate
\* sends carries per_page = MAX_PAGE_SIZE, whatever per_page its caller
\* passed; the caller's per_page is never sent.
C11_MaxPageSizeRequested ==
    \A k \in DOMAIN requestLog :
        (requestLog[k].auto_paginate /\ requestLog[k].caller.kind = "int") =>
            requestLog[k].per_page = [kind |-> "int", value |-> MAX_PAGE_SIZE]


(***************************************************************************)
(* Properties of OyezClient.get (SpecClient).                              *)
(***************************************************************************)
\* C12: a get call makes at most max_tries tries; a 404 or an unparsable
\* response ends the call at once, so neither is ever followed by another
\* try; and a call that ends with a connection, timeout or rate-limit
\* failure has been retried up to the bound of max_tries tries.
C12_RetriesNetworkNotNotFound ==
    /\ Len(attemptLog) <= max_tries
    /\ \A k \in DOMAIN attemptLog :
          attemptLog[k] \in {"404", "bad_json"} => k = Len(attemptLog)
    /\ (/\ cliPc = "raised"
        /\ attemptLog[Len(attemptLog)] \in
              {"connection_error", "timeout", "rate_limited"}) =>
          Len(attemptLog) = max_tries


\* C13: every HTTP request of the API client is made from inside the rate
\* limiter: by the time the request is sent the limiter has been entered for
\* it, and once the call has ended the limiter has been given the outcome of
\* each of its requests.
C13_EveryRequestRateLimited ==
    /\ acquires >= httpCalls
    /\ cliPc \in {"returned", "raised"} => reports = httpCalls

\* C14: a rate-limit failure strictly increases current_delay until it has
\* reached max_delay, and a success strictly decreases current_delay toward
\* global_delay_floor and never leaves it below min_delay.
C14_DelayAdaptsWithinBounds ==
    [][invocations' = invocations + 1 =>
         /\ lastOutcome' = "rate_limit" =>
               /\ current_delay' <= max_delay
               /\ current_delay < max_delay => current_delay' > current_delay
         /\ lastOutcome' = "ok" =>
               /\ current_delay > global_delay_floor =>
                     /\ current_delay' < current_delay
                     /\ current_delay' >= global_delay_floor
               /\ current_delay' >= min_delay]_vars

\* the invocations of func in one call are bounded, the call returns at its
\* first success, and func's own error goes to the caller only after
\* max_retries retries that each failed
RunIsBounded ==
    /\ invocations <= rl_max_retries + 1
    /\ rlPc = "running" => invocations = retries /\ retries <= rl_max_retries
    /\ rlPc = "returned" => lastOutcome = "ok" /\ invocations = retries + 1
    /\ rlPc = "raised_error" =>
          /\ lastOutcome = "other"
          /\ invocations = rl_max_retries + 1
          /\ retries = rl_max_retries + 1
    /\ (rlPc = "running" /\ retries > 0 /\ lastOutcome = "other") =>
          lastWait.kind = "other" /\ lastWait.retries = retries

\* C15, as stated: execute_with_rate_limit ends after at most
\* max_retries + 1 invocations of func, returns at the first success, and
\* after a non-rate-limit failure sleeps min_delay * 1.5^(attempt - 1)
\* before the next attempt, raising func's error after max_retries retries.
C15_SleepsExactBackoff ==
    /\ RunIsBounded
    /\ lastWait.kind = "other" =>
          lastWait.slept * 2^(lastWait.retries - 1)
             = min_delay * 3^(lastWait.retries - 1)

\* C15, amended: the same, except that the sleep is the backoff
\* min_delay * 1.5^(attempt - 1) with jitter applied, between 7/8 and 5/4
\* of it.
C15_SleepsJitteredBackoff ==
    /\ RunIsBounded
    /\ lastWait.kind = "other" =>
          /\ lastWait.wait_time * 2^(lastWait.retries - 1)
                = min_delay * 3^(lastWait.retries - 1)
          /\ 8 * lastWait.slept >= 7 * lastWait.wait_time
          /\ 4 * lastWait.slept <= 5 * lastWait.wait_time

C15_Witness ==
    /\ rlPc = "raised_error"
    /\ lastWait.kind = "other"
    /\ lastWait.retries = rl_max_retries
    /\ lastWait.slept # lastWait.wait_time

\* C17: after a store call, the matching exists call is true and the
\* matching get call returns what the latest store call for the key stored,
\* whatever media type an audio file was stored with.
C17_GetAfterPutRoundTrips ==
    /\ \A audio_id \in DOMAIN stored.audio_files :
          /\ AudioExists(audio_id)
          /\ ~GetAudioDataRaises(audio_id)
          /\ GetAudioData(audio_id) = stored.audio_files[audio_id]
    /\ \A case_id \in DOMAIN stored.cases :
          /\ CaseExists(case_id)
          /\ ~GetCaseDataRaises(case_id)
          /\ GetCaseData(case_id) = stored.cases[case_id]
    /\ \A list_name \in DOMAIN stored.case_lists :
          /\ CaseListExists(list_name)
          /\ ~GetCaseListRaises(list_name)
          /\ GetCaseList(list_name) = stored.case_lists[list_name]

\* C19: get_cache_stats reports the numbers of distinct case ids, audio ids
\* and list names stored since the cache was created or last cleared.
C19_StatsCountDistinctKeys ==
    /\ GetCacheStats.case_count = Cardinality(DOMAIN stored.cases)
    /\ GetCacheStats.audio_count = Cardinality(DOMAIN stored.audio_files)
    /\ GetCacheStats.case_list_count = Cardinality(DOMAIN stored.case_lists)

\* three cases, two audio files (one stored twice, under two media types)
\* and one list are stored
C19_Witness ==
    /\ Cardinality(DOMAIN stored.cases) = 3
    /\ Cardinality(DOMAIN stored.audio_files) = 2
    /\ Cardinality(DOMAIN stored.case_lists) = 1
    /\ Cardinality({p \in DOMAIN files : p[1] = "audio"}) = 3
    /\ GetCacheStats = [case_count |-> 3, audio_count |-> 2, case_list_count |-> 1]

\* C20: after clear_cache the three subdirectories exist, no key exists in
\* the cache and no blob file is left.
C20_ClearLeavesEmptyCache ==
    cacheOp \in {"clear_cache", "clear_cache_of_nothing"} =>
        /\ Subdirectories \subseteq dirs
        /\ \A case_id \in CacheCaseIds : ~CaseExists(case_id)
        /\ \A audio_id \in CacheAudioIds : ~AudioExists(audio_id)
        /\ \A list_name \in CacheListNames : ~CaseListExists(list_name)
        /\ files = EmptyMap

\* a clear of a cache that held blobs
C20_Witness ==
    /\ cacheOp = "clear_cache"
    /\ files = EmptyMap
    /\ cache_index = EmptyIndex

C18_NoIndexUpdateLost ==
    (\A t \in CacheCallers : cPc[t] = "idle") =>
        /\ DOMAIN stored.cases \subseteq DOMAIN cache_index.cases
        /\ DOMAIN stored.audio_files \subseteq DOMAIN cache_index.audio_files
        /\ DOMAIN stored.case_lists \subseteq DOMAIN cache_index.case_lists
        /\ DOMAIN stored.cases \subseteq DOMAIN JsonLoad(index_doc).cases
        /\ DOMAIN stored.audio_files \subseteq DOMAIN JsonLoad(index_doc).audio_files
        /\ DOMAIN stored.case_lists \subseteq DOMAIN JsonLoad(index_doc).case_lists

\* two store calls for different keys overlapped and both have returned
C18_Witness ==
    /\ \A t \in CacheCallers : cPc[t] = "idle"
    /\ \E t, u \in CacheCallers :
          /\ t # u
          /\ cArg[t].op = "store_case_data" /\ cArg[t].overlapped
          /\ cArg[u].op = "store_audio_data"
          /\ cArg[t].call.key \in DOMAIN stored.cases
          /\ cArg[u].call.key \in DOMAIN stored.audio_files
          /\ cArg[u].call.key \in DOMAIN JsonLoad(index_doc).audio_files

(***************************************************************************)
(* Properties of the DownloadTracker's file and counters.                  *)
(***************************************************************************)
\* C21, as stated: after every mark_failed, every mark_successful that
\* removed an item and every reset, the tracker file holds the backlog in
\* memory: a tracker opened on it has the same ids, payloads and attempts.
C21_FileHoldsBacklog ==
    trackerOp.op \in {"mark_failed", "mark_successful", "reset"} =>
        LoadTracker(tracker_file) = failed_items

\* C21, amended: the same whenever the latest write of the file succeeded;
\* a failed write is logged and the call completes all the same.
C21_FileHoldsBacklogWhenSaved ==
    (trackerOp.op \in {"mark_failed", "mark_successful", "reset"} /\ lastSave = "ok") =>
        /\ tracker_file = TrackerDoc(failed_items)
        /\ LoadTracker(tracker_file) = failed_items

\* a write failed earlier, and the latest mark_failed saved a backlog of
\* two items, one of them failed twice
C21_Witness ==
    /\ trackerOp.op = "mark_failed"
    /\ lastSave = "ok"
    /\ saveFailures > 0
    /\ Len(failed_items) = 2
    /\ \E k \in DOMAIN failed_items : failed_items[k].attempts = 2
    /\ LoadTracker(tracker_file) = failed_items

C28_RecordFollowsCalls ==
    [][/\ \A c \in Cases :
            /\ Tracked(failed_items', ItemId(c)) <=> marks'[ItemId(c)] > 0
            /\ Tracked(failed_items', ItemId(c)) =>
                  /\ failed_items'[IndexOf(failed_items', ItemId(c))].attempts
                        = marks'[ItemId(c)]
                  /\ failed_items'[IndexOf(failed_items', ItemId(c))].item_data = c
            /\ Cardinality({k \in DOMAIN failed_items' :
                               failed_items'[k].id = ItemId(c)}) <= 1
       /\ trackerOp'.op = "mark_successful_untracked" =>
            failed_items' = failed_items /\ tracker_file' = tracker_file]_vars

\* one item failed three times in a row, another was failed and then
\* marked successful
C28_Witness ==
    \E c, d \in Cases :
        /\ c # d
        /\ marks[ItemId(c)] = 3
        /\ Tracked(failed_items, ItemId(c))
        /\ failed_items[IndexOf(failed_items, ItemId(c))].attempts = 3
        /\ trackerOp.op = "mark_successful"
        /\ ~Tracked(failed_items, ItemId(d))

\* C29: total_failed = retriable + permanent_failures, retriable is the
\* length of get_failed_items_for_retry, and has_failed_items_for_retry
\* is true exactly when that list is not empty.
C29_StatsAgree ==
    /\ GetStats(failed_items).total_failed
          = GetStats(failed_items).retriable + GetStats(failed_items).permanent_failures
    /\ GetStats(failed_items).retriable = Len(GetFailedItemsForRetry(failed_items))
    /\ HasFailedItemsForRetry(failed_items)
          <=> GetFailedItemsForRetry(failed_items) # << >>

\* every tracked item is past the retry limit
C29_Witness ==
    /\ GetStats(failed_items).permanent_failures = 2
    /\ GetStats(failed_items).retriable = 0
    /\ ~HasFailedItemsForRetry(failed_items)

C27_InterruptStopsDispatchAndFlushes ==
    /\ lateDispatch = {}
    /\ svcPhase = "interrupted" => final_stats = "logged"

(***************************************************************************)
(* Properties of the DownloadService's counters and its ProgressMonitor    *)
(***************************************************************************)
\* C23: every read or update of items_processed, audio_files_downloaded and
\* errors, by the main thread or the monitor thread, on the normal and the
\* error paths, is made while the thread holds self.stats["lock"].
C23_CountersAccessedUnderLock ==
    \A a \in accessLog : a.locked

\* C24: a step of the monitor thread never changes the counters, and the
\* monitor thread ends only after stop_event was set: a stats_callback that
\* raises, on the first read or on a later poll, does not end the polling.
C24_MonitorReadsOnlyAndSurvives ==
    [][ /\ monPc' # monPc /\ monPc # "none" /\ monPc' # "first_read" => stats' = stats
        /\ monPc' = "ended" /\ monPc # "ended" => stop_event ]_vars

C26_FailedTermCountsOnce ==
    (mainPc = "done" /\ method = "download_multiple_terms") =>
        /\ attempted = Len(terms)
        /\ retryRan
        /\ stats.errors = caseErrors + failedTerms

\* C31: in a run of download_term or download_all_cases every submitted
\* work item is counted exactly once, as a success or as an error: while the
\* main pass collects, items_processed + errors equals the number of results
\* collected so far, and when it has finished it equals the number of items
\* submitted; audio_files_downloaded is the sum of the audio counts returned.
C31_EveryItemCountedOnce ==
    (method \in {"download_term", "download_all_cases"} /\ listing.ok
       /\ mainPc \notin {"idle", "term_start", "term_listing"}) =>
        /\ stats.items_processed + stats.errors = listing.cases - pending
        /\ stats.errors = caseErrors
        /\ stats.audio_files_downloaded = audioSum
        /\ mainPc # "collect" => stats.items_processed + stats.errors = listing.cases

\* download_term has finished a listing of two items, one a success with an
\* audio file and one a failure
C31_Witness ==
    /\ method = "download_term"
    /\ mainPc = "done"
    /\ listing = [ok |-> TRUE, cases |-> 2]
    /\ stats = [items_processed |-> 1, audio_files_downloaded |-> 1, errors |-> 1]

\* C39: from the start of download_multiple_terms until it returns exactly
\* one progress monitor is active: the one started at line 303 is neither
\* stopped nor replaced by the nested download_term calls, and none is left
\* once the operation has returned.
C39_OneMonitorThroughout ==
    method = "download_multiple_terms" =>
        /\ mainPc \notin {"idle", "join", "done"} =>
              /\ progress_monitor # None
              /\ monitorStarts = 1
              /\ monitorStops = 0
              /\ ~stop_event
        /\ mainPc = "done" => progress_monitor = None /\ monitorStarts = 1

C37_HasAudioIffOwnedAsset ==
    \A case_id \in DOMAIN cache_index.cases :
        cache_index.cases[case_id].has_audio
            <=> \E audio_id \in DOMAIN cache_index.audio_files :
                    /\ cache_index.audio_files[audio_id].case_id # None
                    /\ cache_index.audio_files[audio_id].case_id = case_id

(***************************************************************************)
(* Properties of the pagination driver's termination and errors            *)
(***************************************************************************)
\* the first page (0-indexed) on which the remote has no items: the end of
\* its collection
FirstEmptyPage(remote) ==
    CHOOSE p \in 0 .. Len(remote) :
        /\ p = Len(remote) \/ remote[p + 1] = 0
        /\ \A q \in 1 .. p : remote[q] # 0

\* C33: for a remote that serves a finite collection iter_paginated_resource
\* makes finitely many page fetches: it never asks for a page beyond the
\* first empty one, fetches each page at most once, and is done as soon as
\* a page is empty or, when short pages stop it, shorter than per_page.
C33_FinitelyManyFetches ==
    pagOp = "iter_paginated_resource" =>
        /\ page <= FirstEmptyPage(pagRemote)
        /\ fetchCalls <= FirstEmptyPage(pagRemote) + 1
        /\ pagPc = "fetch" => fetchCalls = page
        /\ (pagPc = "fetch" /\ page > 0) =>
              /\ GetPageResource(pagRemote, page - 1) # << >>
              /\ ~StopOnShortPage(per_page, GetPageResource(pagRemote, page - 1),
                                  continue_pagination_on_partial_page)

\* the iteration has ended at the empty page after MaxPages non-empty pages,
\* short pages among them, having fetched MaxPages + 1 pages
C33_Witness ==
    /\ pagOp = "iter_paginated_resource"
    /\ pagPc = "done"
    /\ continue_pagination_on_partial_page
    /\ FirstEmptyPage(pagRemote) = MaxPages
    /\ fetchCalls = MaxPages + 1
    /\ \E p \in 1 .. MaxPages : pagRemote[p] < pagRemote[1]

\* C34: get_paginated_resource treats no error of a page request specially:
\* when the request of any page raises, the call raises and returns no
\* list; so a list that is returned was collected without any request
\* having raised.
C34_AnyFetchErrorAborts ==
    /\ collected.get_raised # "none" => collected.outcome # "returned"
    /\ (pagOp = "get_paginated_resource" /\ pagPc \in {"returned", "raised"}) =>
          (collected.outcome = "raised" <=> collected.get_raised # "none")

\* C38: for an AdaptiveRateLimiter built with its default parameters, at every
\* moment min_delay <= global_delay_floor <= current_delay <= max_delay, and
\* consecutive_successes and consecutive_failures are never both non-zero.
C38_DefaultLimiterDelaysOrdered ==
    limiter_params = DefaultParams =>
        /\ min_delay <= global_delay_floor
        /\ global_delay_floor <= current_delay
        /\ current_delay <= limiter_params.max_delay
        /\ consecutive_successes = 0 \/ consecutive_failures = 0

\* the default limiter backed off to max_delay and raised its floor
C38_Witness ==
    /\ limiter_params = DefaultParams
    /\ current_delay = limiter_params.max_delay
    /\ global_delay_floor > min_delay
    /\ consecutive_failures >= 3

\* C32: in download_all_cases, when the case list holds a case ID more than
\* once, scraper.scrape_case is called at most once for that case ID during
\* the main pass, however the worker threads interleave.
C32_OneFetchPerCaseId ==
    \A id \in DupIds : scrapeCalls[id] <= 1

\* C36: when worker threads call mark_failed and mark_successful at the same
\* time, no update is lost: once every call has returned, each item's
\* presence and attempts are those some sequential order of the same calls
\* leaves, and the tracker file holds that state.
C36_ConcurrentMarksAreSerializable ==
    (callLog # << >> /\ \A t \in Threads : tpc[t] = "idle") =>
        /\ AttemptsOf(failed_items) \in SequentialOutcomes(<< >>, DOMAIN callLog)
        /\ tracker_file.kind = "json"
        /\ AttemptsOf(tracker_file.failed_items) = AttemptsOf(failed_items)


====
